---- MODULE Spec2Model ----
\* Model of the transport-network resilience engine
\* (src/src/utils/graphAlgorithms.js) and of the scenario run that drives it
\* (src/src/App.js, runScenario).
\*
\* Numbers.  The code computes in floating point; the model computes exactly,
\* in integers, with every quantity held in a fixed unit:
\*   distance     1 unit = 0.1 km
\*   multipliers  1 unit = 0.05        (1.45 is 29, 1.0 is 20)
\*   time         1 unit = 1/7000 min  (7000 = lcm of every divisor the code uses)
\*   cost         1 unit = 1/400 rupee
\* Averages are exact fractions [num, den].
\* Node identifiers are strings that may contain '_'; the model holds an
\* identifier as the sequence of its '_'-separated tokens, so that joining two
\* identifiers with '_' is concatenation and split('_') is the token sequence.
EXTENDS Integers, Sequences, FiniteSets, TLC

VARIABLES
    nodes,            \* App state: parsed node records
    edges,            \* App state: parsed edge records
    objective,        \* 'time' | 'cost' | 'transfers'
    coefficients,     \* time-of-day coefficient set
    routeContext,     \* {source, target} or Null
    failureType,      \* 'none' | 'node' | 'edge' | 'layer' | other
    failureTargets,   \* list handed to applyFailure
    odPairs,          \* OD pair list of the run
    budget,           \* link budget
    heap,             \* graph objects: heap[r] is the graph the reference r names
    originalGraph,    \* reference held by the host (0: none yet)
    failedGraph,      \* reference held by the host (0: none yet)
    baselineMetrics,  \* Metrics Bundle or Null
    scenarioMetrics,  \* Metrics Bundle or Null
    candidates,       \* output of generateCandidates
    greedy,           \* locals of greedyRecommendation while it runs, and its result
    query,            \* the last computeShortestPath / computeMetrics request made
    pathResult,       \* the Path Result of the last computeShortestPath call
    acc,              \* accumulators of the last computeMetrics call
    pc                \* position of the run

vars == <<nodes, edges, objective, coefficients, routeContext, failureType,
          failureTargets, odPairs, budget, heap, originalGraph, failedGraph,
          baselineMetrics, scenarioMetrics, candidates, greedy, query,
          pathResult, acc, pc>>

-----------------------------------------------------------------------------
\* Constants of the program

TRANSFER_PENALTY == 10000

\* Infinity: larger than any finite total of the model; TLC stops with an
\* overflow error should arithmetic ever be done on sums of it.
UNREACHABLE == 1000000000

\* null: of a string (a mode), of an object, of a path
Null == "null"
NullObject == [null |-> TRUE]
NullPath == <<>>

\* Units (see the header).
TimePerMin == 20 * 350
CostPerRupee == 20 * 20

Objectives == {"time", "cost", "transfers"}

\* Time-of-day coefficient sets of the host, in units of 0.05.
Standard == [timeMultiplier |-> 20, costMultiplier |-> 20]
EveningPeak == [timeMultiplier |-> 33, costMultiplier |-> 27]
Night == [timeMultiplier |-> 17, costMultiplier |-> 28]

-----------------------------------------------------------------------------
\* Generic helpers

Min(a, b) == IF a <= b THEN a ELSE b

\* JavaScript a.endsWith('_Metro') on a token-sequence identifier
endsWithMetro(id) == Len(id) >= 2 /\ id[Len(id)] = "Metro"

-----------------------------------------------------------------------------
\* The graph library object (graphology, multi: false, type: 'undirected').
\* A graph is [nodes: sequence of node records, edges: sequence of edge
\* records], both in insertion order, which is the order the library iterates.

hasNode(graph, id) == \E i \in 1..Len(graph.nodes) : graph.nodes[i].node_id = id

Joins(e, u, v) == (e.source = u /\ e.target = v) \/ (e.source = v /\ e.target = u)

hasEdge(graph, u, v) == \E i \in 1..Len(graph.edges) : Joins(graph.edges[i], u, v)

getEdgeAttributes(graph, u, v) ==
    graph.edges[CHOOSE i \in 1..Len(graph.edges) : Joins(graph.edges[i], u, v)]

getNodeAttributes(graph, id) ==
    graph.nodes[CHOOSE i \in 1..Len(graph.nodes) : graph.nodes[i].node_id = id]

\* addEdge throws when an endpoint is missing or the pair is already joined.
addEdgeThrows(graph, u, v) ==
    ~hasNode(graph, u) \/ ~hasNode(graph, v) \/ hasEdge(graph, u, v)

addEdge(graph, u, v, attrs) ==
    [graph EXCEPT !.edges = Append(@, [source |-> u, target |-> v] @@ attrs)]

dropEdge(graph, u, v) ==
    [graph EXCEPT !.edges = SelectSeq(@, LAMBDA e : ~Joins(e, u, v))]

\* dropNode that leaves the node's edges in place
dropNode_KeepEdges(graph, id) ==
    [graph EXCEPT !.nodes = SelectSeq(@, LAMBDA n : n.node_id # id)]

dropNode(graph, id) ==
    [nodes |-> SelectSeq(graph.nodes, LAMBDA n : n.node_id # id),
     edges |-> SelectSeq(graph.edges, LAMBDA e : e.source # id /\ e.target # id)]

\* forEachNeighbor: the neighbours of a node, in the order their edges were added
neighbors(graph, id) ==
    LET inc == SelectSeq(graph.edges, LAMBDA e : e.source = id \/ e.target = id)
    IN [i \in 1..Len(inc) |-> IF inc[i].source = id THEN inc[i].target ELSE inc[i].source]

\* copy that hands back the object itself
copy_Alias(h, r) == [heap |-> h, ref |-> r]

\* graph.copy(): a new object with the same nodes and edges
copy(h, r) == [heap |-> Append(h, h[r]), ref |-> Len(h) + 1]

-----------------------------------------------------------------------------
\* buildGraph

\* calculateMetroFare: rupees for a distance in units of 0.1 km
calculateMetroFare(distanceKm) ==
    IF distanceKm <= 20 THEN 10
    ELSE IF distanceKm <= 40 THEN 20
    ELSE IF distanceKm <= 60 THEN 30
    ELSE IF distanceKm <= 90 THEN 40
    ELSE IF distanceKm <= 120 THEN 50
    ELSE IF distanceKm <= 150 THEN 60
    ELSE IF distanceKm <= 180 THEN 70
    ELSE IF distanceKm <= 210 THEN 80
    ELSE IF distanceKm <= 240 THEN 90
    ELSE 100

\* edge.mode || edge.edge_type || 'unknown' ("" is the absent field)
edgeTransportMode(edge) ==
    IF edge.mode # "" THEN edge.mode
    ELSE IF edge.edge_type # "" THEN edge.edge_type
    ELSE "unknown"

isRailMode(transportMode) == transportMode = "metro" \/ transportMode = "mmts"

\* rupees
edgeBaseCost(edge) ==
    IF edgeTransportMode(edge) = "metro" THEN calculateMetroFare(edge.distance_km)
    ELSE edge.cost_rs

\* edgeAdjustedTime with the multiplier applied to every mode
edgeAdjustedTime_AllModes(edge, coeffs) ==
    edge.time_min * coeffs.timeMultiplier * (TimePerMin \div 20)

\* time units: rail keeps the base time, road is multiplied
edgeAdjustedTime(edge, coeffs) ==
    IF isRailMode(edgeTransportMode(edge)) THEN edge.time_min * TimePerMin
    ELSE edge.time_min * coeffs.timeMultiplier * (TimePerMin \div 20)

\* sourceIsMetro && targetIsMetro
preferMetro(ctx) ==
    /\ ctx # NullObject
    /\ endsWithMetro(ctx.source)
    /\ endsWithMetro(ctx.target)

\* cost units: rail keeps the base cost, road is multiplied; then the Metro
\* preference multiplies by 1.4 (7/5)
edgeAdjustedCost(edge, coeffs, ctx) ==
    LET surged == IF isRailMode(edgeTransportMode(edge))
                  THEN edgeBaseCost(edge) * CostPerRupee
                  ELSE edgeBaseCost(edge) * coeffs.costMultiplier * (CostPerRupee \div 20)
    IN IF preferMetro(ctx) /\ edgeTransportMode(edge) # "metro"
          /\ edge.intra_or_inter # "inter"
       THEN (surged * 7) \div 5
       ELSE surged

\* edgeWeight with the base time as the weight under 'time'
edgeWeight_BaseTime(edge, obj, coeffs, ctx) ==
    IF obj = "time" THEN edge.time_min * TimePerMin
    ELSE IF obj = "cost" THEN edgeAdjustedCost(edge, coeffs, ctx)
    ELSE [num |-> edge.time_min
                    + (IF edge.intra_or_inter = "inter" THEN 100 * TRANSFER_PENALTY ELSE 0),
          den |-> 100]

\* The weight of an edge under an objective.  Under 'transfers' it is the
\* fraction time_min * 0.01 (+ TRANSFER_PENALTY on an inter-modal edge).
edgeWeight(edge, obj, coeffs, ctx) ==
    IF obj = "time" THEN edgeAdjustedTime(edge, coeffs)
    ELSE IF obj = "cost" THEN edgeAdjustedCost(edge, coeffs, ctx)
    ELSE [num |-> edge.time_min
                    + (IF edge.intra_or_inter = "inter" THEN 100 * TRANSFER_PENALTY ELSE 0),
          den |-> 100]

builtEdgeAttributes(edge, obj, coeffs, ctx) ==
    [from_id |-> edge.from_id,
     to_id |-> edge.to_id,
     intra_or_inter |-> edge.intra_or_inter,
     weight |-> edgeWeight(edge, obj, coeffs, ctx),
     transportMode |-> edgeTransportMode(edge),
     mode |-> edgeTransportMode(edge),
     distance |-> edge.distance_km,
     time |-> edgeAdjustedTime(edge, coeffs),
     cost |-> edgeAdjustedCost(edge, coeffs, ctx),
     baseTime |-> edge.time_min,
     baseCost |-> edgeBaseCost(edge),
     originalCost |-> edge.cost_rs,
     isInterModal |-> (edge.intra_or_inter = "inter")]

\* The test that guards graph.addEdge in buildGraph
alreadyConnected(graph, edge) == hasEdge(graph, edge.from_id, edge.to_id)

\* if (!graph.hasNode(edge.from_id) || !graph.hasNode(edge.to_id)) return
recordSkipped(graph, edge) == ~hasNode(graph, edge.from_id) \/ ~hasNode(graph, edge.to_id)

\* addEdgeRecord on a graph that keeps parallel edges
addEdgeRecord_Multi(graph, edge, obj, coeffs, ctx) ==
    IF recordSkipped(graph, edge) THEN graph
    ELSE addEdge(graph, edge.from_id, edge.to_id,
                 builtEdgeAttributes(edge, obj, coeffs, ctx))

\* addEdgeRecord without the test for missing endpoints, on a graph that
\* takes any edge
addEdgeRecord_Dangling(graph, edge, obj, coeffs, ctx) ==
    IF alreadyConnected(graph, edge) THEN graph
    ELSE addEdge(graph, edge.from_id, edge.to_id,
                 builtEdgeAttributes(edge, obj, coeffs, ctx))

\* One iteration of edges.forEach: the graph after the record is processed
addEdgeRecord(graph, edge, obj, coeffs, ctx) ==
    IF recordSkipped(graph, edge) THEN graph
    ELSE IF alreadyConnected(graph, edge) THEN graph
    ELSE IF addEdgeThrows(graph, edge.from_id, edge.to_id) THEN graph
    ELSE addEdge(graph, edge.from_id, edge.to_id,
                 builtEdgeAttributes(edge, obj, coeffs, ctx))

\* nodes.forEach(graph.addNode)
addNodes(ns) == [nodes |-> ns, edges |-> <<>>]

\* edges.forEach
RECURSIVE addEdgeRecords(_, _, _, _, _)
addEdgeRecords(graph, es, obj, coeffs, ctx) ==
    IF es = <<>> THEN graph
    ELSE IF recordSkipped(graph, Head(es))
    THEN addEdgeRecords(graph, Tail(es), obj, coeffs, ctx)
    ELSE addEdgeRecords(addEdgeRecord(graph, Head(es), obj, coeffs, ctx),
                        Tail(es), obj, coeffs, ctx)

buildGraph(ns, es, obj, coeffs, ctx) ==
    addEdgeRecords(addNodes(ns), es, obj, coeffs, ctx)

-----------------------------------------------------------------------------
\* dijkstraMinTransfers

\* edge.transportMode || edge.mode
edgeModeOf(edge) == IF edge.transportMode # "" THEN edge.transportMode ELSE edge.mode

\* The comparator of queue.sort: (transfers, time) lexicographic
queueBefore(a, b) ==
    IF a.transfers # b.transfers THEN a.transfers < b.transfers ELSE a.time < b.time

\* queue.sort(...) then queue.shift(): the sort is stable and every push goes to
\* the end, so the head after sorting is the earliest-pushed minimal entry.
queueHeadIndex(queue) ==
    CHOOSE i \in 1..Len(queue) :
        /\ \A j \in 1..Len(queue) : ~queueBefore(queue[j], queue[i])
        /\ \A j \in 1..(i - 1) : queueBefore(queue[i], queue[j])

queueWithout(queue, i) == SubSeq(queue, 1, i - 1) \o SubSeq(queue, i + 1, Len(queue))

\* The key of the best-known map
bestKey(node, edgeMode) == node

\* isBetter without the case of a node that has no best-known entry yet
isBetter_KnownOnly(best, key, newTransfers, newTime) ==
    IF key \notin DOMAIN best THEN FALSE
    ELSE IF newTransfers < best[key].transfers THEN TRUE
    ELSE newTransfers = best[key].transfers /\ newTime < best[key].time

\* isBetter
isBetter(best, key, newTransfers, newTime) ==
    IF key \notin DOMAIN best THEN TRUE
    ELSE IF newTransfers < best[key].transfers THEN TRUE
    ELSE newTransfers = best[key].transfers /\ newTime < best[key].time

\* The body of graph.forEachNeighbor for one neighbour: st is [queue, best]
exploreNeighbor(graph, current, neighbor, st) ==
    LET edge == getEdgeAttributes(graph, current.node, neighbor)
        edgeMode == edgeModeOf(edge)
        edgeTime == edge.time
        newTransfers == IF current.prevMode # Null /\ current.prevMode # edgeMode
                        THEN current.transfers + 1 ELSE current.transfers
        newTime == current.time + edgeTime
        key == bestKey(neighbor, edgeMode)
    IN IF isBetter(st.best, key, newTransfers, newTime)
       THEN [queue |-> Append(st.queue,
                              [node |-> neighbor, transfers |-> newTransfers,
                               time |-> newTime, prevMode |-> edgeMode,
                               path |-> Append(current.path, neighbor)]),
             best |-> (key :> [transfers |-> newTransfers, time |-> newTime]) @@ st.best]
       ELSE st

RECURSIVE exploreNeighbors(_, _, _, _)
exploreNeighbors(graph, current, ns, st) ==
    IF ns = <<>> THEN st
    ELSE exploreNeighbors(graph, current, Tail(ns),
                          exploreNeighbor(graph, current, Head(ns), st))

\* queue.shift() after the sort, and what it leaves in the queue
queueHead(queue) == queue[queueHeadIndex(queue)]
queueRest(queue) == queueWithout(queue, queueHeadIndex(queue))

\* `${current.node}_${current.prevMode}`
stateKey(current) == <<current.node, current.prevMode>>

\* The neighbours of the head explored: st is [queue, best]
exploreHead(graph, st) ==
    exploreNeighbors(graph, queueHead(st.queue),
                     neighbors(graph, queueHead(st.queue).node),
                     [queue |-> queueRest(st.queue), best |-> st.best])

\* while (queue.length > 0): st is [queue, best]
RECURSIVE minTransfersLoop(_, _, _, _)
minTransfersLoop(graph, target, st, visited) ==
    IF st.queue = <<>> THEN NullPath
    ELSE IF queueHead(st.queue).node = target THEN queueHead(st.queue).path
    ELSE IF stateKey(queueHead(st.queue)) \in visited
    THEN minTransfersLoop(graph, target, [st EXCEPT !.queue = queueRest(@)], visited)
    ELSE minTransfersLoop(graph, target, exploreHead(graph, st),
                          visited \cup {stateKey(queueHead(st.queue))})

dijkstraMinTransfers(graph, source, target) ==
    IF ~hasNode(graph, source) \/ ~hasNode(graph, target) THEN NullPath
    ELSE IF source = target THEN <<source>>
    ELSE minTransfersLoop(graph, target,
                          [queue |-> <<[node |-> source, transfers |-> 0, time |-> 0,
                                        prevMode |-> Null, path |-> <<source>>]>>,
                           best |-> (source :> [transfers |-> 0, time |-> 0])],
                          {})

-----------------------------------------------------------------------------
\* bidirectional(graph, source, target, 'weight') of graphology-shortest-path:
\* a minimum-weight path, or null when there is none.  Computed here by
\* Dijkstra's algorithm; which of several minimum-weight paths is returned is
\* fixed by the order nodes are settled and edges relaxed.

relaxNeighbor(graph, u, neighbor, dist) ==
    LET d == dist[u].d + getEdgeAttributes(graph, u, neighbor).weight
    IN IF neighbor \notin DOMAIN dist \/ d < dist[neighbor].d
       THEN (neighbor :> [d |-> d, path |-> Append(dist[u].path, neighbor)]) @@ dist
       ELSE dist

RECURSIVE relaxNeighbors(_, _, _, _)
relaxNeighbors(graph, u, ns, dist) ==
    IF ns = <<>> THEN dist
    ELSE relaxNeighbors(graph, u, Tail(ns), relaxNeighbor(graph, u, Head(ns), dist))

\* The reached nodes not yet settled, and the nearest of them
openNodes(dist, settled) == (DOMAIN dist) \ settled

nearest(dist, settled) ==
    CHOOSE n \in openNodes(dist, settled) :
        \A m \in openNodes(dist, settled) : dist[n].d <= dist[m].d

RECURSIVE dijkstraLoop(_, _, _, _)
dijkstraLoop(graph, target, dist, settled) ==
    IF openNodes(dist, settled) = {} THEN NullPath
    ELSE IF nearest(dist, settled) = target THEN dist[target].path
    ELSE dijkstraLoop(graph, target,
                      relaxNeighbors(graph, nearest(dist, settled),
                                     neighbors(graph, nearest(dist, settled)), dist),
                      settled \cup {nearest(dist, settled)})

bidirectional(graph, source, target) ==
    IF source = target THEN <<source>>
    ELSE dijkstraLoop(graph, target, (source :> [d |-> 0, path |-> <<source>>]), {})

-----------------------------------------------------------------------------
\* computeShortestPath

unreachableResult ==
    [path |-> NullPath, distance |-> UNREACHABLE, transfers |-> UNREACHABLE,
     time |-> UNREACHABLE, cost |-> UNREACHABLE]

trivialResult(source) ==
    [path |-> <<source>>, distance |-> 0, transfers |-> 0, time |-> 0, cost |-> 0]

\* node.name || id ("" is the absent name)
nameOr(graph, id) ==
    IF getNodeAttributes(graph, id).name # "" THEN getNodeAttributes(graph, id).name ELSE id

\* walkPath_FirstCounts that counts the first edge as a change of mode
RECURSIVE walkPath_FirstCounts(_, _, _, _)
walkPath_FirstCounts(graph, path, i, st) ==
    IF i > Len(path) - 1 THEN st
    ELSE LET edge == getEdgeAttributes(graph, path[i], path[i + 1])
             currentMode == edgeModeOf(edge)
         IN walkPath_FirstCounts(graph, path, i + 1,
                [totalTime |-> st.totalTime + edge.time,
                 totalCost |-> st.totalCost + edge.cost,
                 totalDistance |-> st.totalDistance + edge.distance,
                 transfers |-> IF st.prevMode # currentMode
                               THEN st.transfers + 1 ELSE st.transfers,
                 prevMode |-> currentMode,
                 pathSegments |-> Append(st.pathSegments,
                     [from |-> nameOr(graph, path[i]), to |-> nameOr(graph, path[i + 1]),
                      fromId |-> path[i], toId |-> path[i + 1],
                      mode |-> currentMode, time |-> edge.time,
                      cost |-> edge.cost, distance |-> edge.distance])])

\* The loop over the path's edges: st is the running totals
RECURSIVE walkPath(_, _, _, _)
walkPath(graph, path, i, st) ==
    IF i > Len(path) - 1 THEN st
    ELSE LET edge == getEdgeAttributes(graph, path[i], path[i + 1])
             currentMode == edgeModeOf(edge)
         IN walkPath(graph, path, i + 1,
                [totalTime |-> st.totalTime + edge.time,
                 totalCost |-> st.totalCost + edge.cost,
                 totalDistance |-> st.totalDistance + edge.distance,
                 transfers |-> IF st.prevMode # Null /\ st.prevMode # currentMode
                               THEN st.transfers + 1 ELSE st.transfers,
                 prevMode |-> currentMode,
                 pathSegments |-> Append(st.pathSegments,
                     [from |-> nameOr(graph, path[i]), to |-> nameOr(graph, path[i + 1]),
                      fromId |-> path[i], toId |-> path[i + 1],
                      mode |-> currentMode, time |-> edge.time,
                      cost |-> edge.cost, distance |-> edge.distance])])

\* The search the objective selects
findPath(graph, source, target, obj) ==
    IF obj = "transfers" THEN dijkstraMinTransfers(graph, source, target)
    ELSE bidirectional(graph, source, target)

\* The totals of a path that was found: w is what the walk over its edges leaves
walkedResult(path, w) ==
    [path |-> path, pathSegments |-> w.pathSegments,
     distance |-> w.totalDistance, transfers |-> w.transfers,
     time |-> w.totalTime, cost |-> w.totalCost]

\* if (!path) return the sentinel; otherwise the walk
resultOfPath(graph, path) ==
    IF path = NullPath THEN unreachableResult
    ELSE walkedResult(path,
                      walkPath(graph, path, 1,
                               [totalTime |-> 0, totalCost |-> 0, totalDistance |-> 0,
                                transfers |-> 0, prevMode |-> Null, pathSegments |-> <<>>]))

\* computeShortestPath with the source === target test ahead of the node test
computeShortestPath_TrivialFirst(graph, source, target, obj) ==
    IF source = target THEN trivialResult(source)
    ELSE IF ~hasNode(graph, source) \/ ~hasNode(graph, target) THEN unreachableResult
    ELSE resultOfPath(graph, findPath(graph, source, target, obj))

computeShortestPath(graph, source, target, obj) ==
    IF ~hasNode(graph, source) \/ ~hasNode(graph, target) THEN unreachableResult
    ELSE IF source = target THEN trivialResult(source)
    ELSE resultOfPath(graph, findPath(graph, source, target, obj))

-----------------------------------------------------------------------------
\* applyFailure

\* failureCopy without the copy: the input graph itself
failureCopy_Alias(h, r) == [heap |-> h, ref |-> r]

\* const failedGraph = graph.copy()
failureCopy(h, r) == copy(h, r)

RECURSIVE dropNodes(_, _)
dropNodes(graph, ids) ==
    IF ids = <<>> THEN graph
    ELSE dropNodes(IF hasNode(graph, Head(ids)) THEN dropNode(graph, Head(ids)) ELSE graph,
                   Tail(ids))

\* const [from, to] = edgeSpec.split('_'): the first two tokens of the key
splitKey(edgeSpec) ==
    [from |-> IF Len(edgeSpec) >= 1 THEN <<edgeSpec[1]>> ELSE <<"">>,
     to |-> IF Len(edgeSpec) >= 2 THEN <<edgeSpec[2]>> ELSE <<"undefined">>]

RECURSIVE dropEdges(_, _)
dropEdges(graph, specs) ==
    IF specs = <<>> THEN graph
    ELSE LET k == splitKey(Head(specs))
         IN dropEdges(IF hasEdge(graph, k.from, k.to) THEN dropEdge(graph, k.from, k.to)
                      ELSE graph,
                      Tail(specs))

includes(list, x) == \E i \in 1..Len(list) : list[i] = x

nodesOfLayers(graph, layers) ==
    LET hit == SelectSeq(graph.nodes, LAMBDA n : includes(layers, n.layer))
    IN [i \in 1..Len(hit) |-> hit[i].node_id]

failedValue(graph, kind, targets) ==
    IF Len(targets) = 0 THEN graph
    ELSE IF kind = "node" THEN dropNodes(graph, targets)
    ELSE IF kind = "edge" THEN dropEdges(graph, targets)
    ELSE IF kind = "layer" THEN dropNodes(graph, nodesOfLayers(graph, targets))
    ELSE graph

\* The result is [heap, ref]: the heap after the call and the reference returned
applyFailure(h, r, kind, targets) ==
    LET c == failureCopy(h, r)
    IN [heap |-> [c.heap EXCEPT ![c.ref] = failedValue(c.heap[c.ref], kind, targets)],
        ref |-> c.ref]

-----------------------------------------------------------------------------
\* computeMetrics

Frac(n, d) == [num |-> n, den |-> d]
FracLess(a, b) == a.num * b.den < b.num * a.den
FracSub(a, b) == [num |-> a.num * b.den - b.num * a.den, den |-> a.den * b.den]

\* metricsStart with accumulators that outlive the call
metricsStart_Stale(previous) == previous

\* The locals a call starts from, whatever an earlier call left behind
metricsStart(previous) ==
    [results |-> <<>>, totalTime |-> 0, totalCost |-> 0, totalTransfers |-> 0,
     disconnected |-> 0, validPairs |-> 0]

\* sourceName || source
orId(name, id) == IF name # "" THEN name ELSE id

\* isUnreachable as !result.time || result.time === UNREACHABLE
isUnreachable_Falsy(result) == result.time = 0 \/ result.time = UNREACHABLE

\* result.time === UNREACHABLE
isUnreachable(result) == result.time = UNREACHABLE

\* countDisconnected without the count
countDisconnected_NoCount(a, od, result) ==
    [a EXCEPT !.results = Append(@, [source |-> od.source, target |-> od.target,
                                     sourceName |-> orId(od.sourceName, od.source),
                                     targetName |-> orId(od.targetName, od.target),
                                     reachable |-> FALSE] @@ result)]

\* countDisconnected without the entry in results
countDisconnected_NoResult(a, od, result) == [a EXCEPT !.disconnected = @ + 1]

\* The branch of odPairs.forEach taken by an unreachable pair
countDisconnected(a, od, result) ==
    [a EXCEPT !.disconnected = @ + 1,
              !.results = Append(@, [source |-> od.source, target |-> od.target,
                                     sourceName |-> orId(od.sourceName, od.source),
                                     targetName |-> orId(od.targetName, od.target),
                                     reachable |-> FALSE] @@ result)]

\* The branch of odPairs.forEach taken by a reachable pair
countValid(a, od, result) ==
    [a EXCEPT !.totalTime = @ + result.time,
              !.totalCost = @ + result.cost,
              !.totalTransfers = @ + result.transfers,
              !.validPairs = @ + 1,
              !.results = Append(@, [source |-> od.source, target |-> od.target,
                                     sourceName |-> orId(od.sourceName, od.source),
                                     targetName |-> orId(od.targetName, od.target),
                                     reachable |-> TRUE] @@ result)]

\* The body of odPairs.forEach, given the result of computeShortestPath
metricsStep(a, od, result) ==
    IF isUnreachable(result) THEN countDisconnected(a, od, result)
    ELSE countValid(a, od, result)

RECURSIVE metricsLoop(_, _, _, _)
metricsLoop(a, graph, ods, obj) ==
    IF ods = <<>> THEN a
    ELSE metricsLoop(metricsStep(a, Head(ods),
                                 computeShortestPath(graph, Head(ods).source,
                                                     Head(ods).target, obj)),
                     graph, Tail(ods), obj)

\* The accumulators when odPairs.forEach is done
metricsAccumulate(previous, graph, ods, obj) ==
    metricsLoop(metricsStart(previous), graph, ods, obj)

\* finalMetrics with the averages taken over all the pairs
finalMetrics_OverAll(a, ods) ==
    [avgTime |-> IF Len(ods) > 0 THEN Frac(a.totalTime, Len(ods)) ELSE Frac(0, 1),
     avgCost |-> IF Len(ods) > 0 THEN Frac(a.totalCost, Len(ods)) ELSE Frac(0, 1),
     avgTransfers |-> IF Len(ods) > 0 THEN Frac(a.totalTransfers, Len(ods))
                      ELSE Frac(0, 1),
     disconnected |-> a.disconnected,
     totalPairs |-> Len(ods),
     validPairs |-> a.validPairs,
     results |-> a.results]

finalMetrics(a, ods) ==
    [avgTime |-> IF a.validPairs > 0 THEN Frac(a.totalTime, a.validPairs) ELSE Frac(0, 1),
     avgCost |-> IF a.validPairs > 0 THEN Frac(a.totalCost, a.validPairs) ELSE Frac(0, 1),
     avgTransfers |-> IF a.validPairs > 0 THEN Frac(a.totalTransfers, a.validPairs)
                      ELSE Frac(0, 1),
     disconnected |-> a.disconnected,
     totalPairs |-> Len(ods),
     validPairs |-> a.validPairs,
     results |-> a.results]

computeMetrics(previous, graph, ods, obj) ==
    finalMetrics(metricsAccumulate(previous, graph, ods, obj), ods)


-----------------------------------------------------------------------------
\* generateCandidates

CandidateCap == 30
ExpressCap == 40

\* euclideanDistance (the haversine distance), in units of 0.1 km.  The node
\* lists of the model lie on one meridian, where the haversine distance is
\* R * |lat1 - lat2|; latitudes are held in the unit that makes this 0.1 km.
euclideanDistance(lat1, lon1, lat2, lon2) ==
    IF lat1 >= lat2 THEN lat1 - lat2 ELSE lat2 - lat1

nodeDistance(a, b) == euclideanDistance(a.lat, a.lon, b.lat, b.lon)

\* `${from}_${to}`
pairKey(from, to) == from \o to

findNode(ns, id) == SelectSeq(ns, LAMBDA n : n.node_id = id)

\* candidateSet.has(key) || candidateSet.has(reverseKey)
alreadyProposed(candidateSet, from, to) ==
    pairKey(from, to) \in candidateSet \/ pairKey(to, from) \in candidateSet

\* connectedInEither that looks at the failed graph only
connectedInEither_FailedOnly(original, failed, from, to) == hasEdge(failed, from, to)

\* failedGraph.hasEdge(from, to) || originalGraph.hasEdge(from, to)
connectedInEither(original, failed, from, to) ==
    hasEdge(failed, from, to) \/ hasEdge(original, from, to)

\* The early returns of addCandidate: st is [candidates, candidateSet]
candidateRejected(st, ns, original, failed, from, to) ==
    \/ alreadyProposed(st.candidateSet, from, to)
    \/ connectedInEither(original, failed, from, to)
    \/ findNode(ns, from) = <<>>
    \/ findNode(ns, to) = <<>>

\* addCandidate
addCandidate(st, ns, original, failed, from, to, type, priority) ==
    IF candidateRejected(st, ns, original, failed, from, to) THEN st
    ELSE [candidates |-> Append(st.candidates,
                [from |-> from, to |-> to,
                 fromName |-> findNode(ns, from)[1].name,
                 toName |-> findNode(ns, to)[1].name,
                 type |-> type,
                 distance |-> nodeDistance(findNode(ns, from)[1], findNode(ns, to)[1]),
                 priority |-> priority]),
          candidateSet |-> st.candidateSet \cup {pairKey(from, to)}]

\* dist >= lo && dist <= hi
within(a, b, lo, hi) == nodeDistance(a, b) >= lo /\ nodeDistance(a, b) <= hi

\* 1. bus hubs 2 to 6 km apart
RECURSIVE hubNeighborLoop(_, _, _, _, _, _, _)
hubNeighborLoop(st, ns, original, failed, busHubs, i, j) ==
    IF i > Len(busHubs) THEN st
    ELSE IF j > Len(busHubs)
    THEN hubNeighborLoop(st, ns, original, failed, busHubs, i + 1, i + 2)
    ELSE IF /\ within(busHubs[i], busHubs[j], 20, 60)
            /\ ~candidateRejected(st, ns, original, failed,
                                  busHubs[i].node_id, busHubs[j].node_id)
    THEN hubNeighborLoop(addCandidate(st, ns, original, failed, busHubs[i].node_id,
                                      busHubs[j].node_id, "hub_neighbor", 10),
                         ns, original, failed, busHubs, i, j + 1)
    ELSE hubNeighborLoop(st, ns, original, failed, busHubs, i, j + 1)

\* 2. metro and mmts stations 0.5 to 4 km apart
RECURSIVE crossRailLoop(_, _, _, _, _, _, _, _)
crossRailLoop(st, ns, original, failed, metroStations, mmtsStations, i, j) ==
    IF i > Len(metroStations) THEN st
    ELSE IF j > Len(mmtsStations)
    THEN crossRailLoop(st, ns, original, failed, metroStations, mmtsStations, i + 1, 1)
    ELSE IF /\ within(metroStations[i], mmtsStations[j], 5, 40)
            /\ ~candidateRejected(st, ns, original, failed,
                                  metroStations[i].node_id, mmtsStations[j].node_id)
    THEN crossRailLoop(addCandidate(st, ns, original, failed, metroStations[i].node_id,
                                    mmtsStations[j].node_id, "cross_rail", 8),
                       ns, original, failed, metroStations, mmtsStations, i, j + 1)
    ELSE crossRailLoop(st, ns, original, failed, metroStations, mmtsStations, i, j + 1)

\* if (od.path && od.path.length > 2)
hasMidPoint(od) == od.path # NullPath /\ Len(od.path) > 2

\* od.path[Math.floor(od.path.length / 2)]
midPoint(od) == od.path[(Len(od.path) \div 2) + 1]

\* 3. the origin and the midpoint of the paths of the top affected results
RECURSIVE odDrivenLoop(_, _, _, _, _)
odDrivenLoop(st, ns, original, failed, topAffected) ==
    IF topAffected = <<>> THEN st
    ELSE IF /\ hasMidPoint(Head(topAffected))
            /\ ~candidateRejected(st, ns, original, failed, Head(topAffected).path[1],
                                  midPoint(Head(topAffected)))
    THEN odDrivenLoop(addCandidate(st, ns, original, failed, Head(topAffected).path[1],
                                   midPoint(Head(topAffected)), "od_driven", 7),
                      ns, original, failed, Tail(topAffected))
    ELSE odDrivenLoop(st, ns, original, failed, Tail(topAffected))

\* 4. major hubs of different regions 3 to 15 km apart, while fewer than
\* ExpressCap candidates have been collected
RECURSIVE expressHubLoop(_, _, _, _, _, _, _)
expressHubLoop(st, ns, original, failed, majorHubs, i, j) ==
    IF ~(i <= Len(majorHubs) /\ Len(st.candidates) < ExpressCap) THEN st
    ELSE IF ~(j <= Len(majorHubs) /\ Len(st.candidates) < ExpressCap)
    THEN expressHubLoop(st, ns, original, failed, majorHubs, i + 1, i + 2)
    ELSE IF /\ majorHubs[i].region # majorHubs[j].region
            /\ within(majorHubs[i], majorHubs[j], 30, 150)
            /\ ~candidateRejected(st, ns, original, failed,
                                  majorHubs[i].node_id, majorHubs[j].node_id)
    THEN expressHubLoop(addCandidate(st, ns, original, failed, majorHubs[i].node_id,
                                     majorHubs[j].node_id, "express_hub", 6),
                        ns, original, failed, majorHubs, i, j + 1)
    ELSE expressHubLoop(st, ns, original, failed, majorHubs, i, j + 1)

\* sortByPriority in the order of increasing priority
sortByPriority_Ascending(cs) ==
    SelectSeq(cs, LAMBDA c : c.priority = 6)
        \o SelectSeq(cs, LAMBDA c : c.priority = 7)
        \o SelectSeq(cs, LAMBDA c : c.priority = 8)
        \o SelectSeq(cs, LAMBDA c : c.priority = 10)

\* candidates.sort((a, b) => b.priority - a.priority): a stable sort
sortByPriority(cs) ==
    SelectSeq(cs, LAMBDA c : c.priority = 10)
        \o SelectSeq(cs, LAMBDA c : c.priority = 8)
        \o SelectSeq(cs, LAMBDA c : c.priority = 7)
        \o SelectSeq(cs, LAMBDA c : c.priority = 6)

\* .slice(0, n)
slice(list, n) == SubSeq(list, 1, Min(n, Len(list)))

\* Every candidate generated, before the sort and the cap.  sortedReachable is
\* scenarioResults.filter(r => r.reachable).sort(...), see GenerateCandidates.
collectCandidates(ns, original, failed, sortedReachable) ==
    LET st0 == [candidates |-> <<>>, candidateSet |-> {}]
        st1 == hubNeighborLoop(st0, ns, original, failed,
                   SelectSeq(ns, LAMBDA n : n.type = "hub" /\ n.layer = "bus"), 1, 2)
        st2 == crossRailLoop(st1, ns, original, failed,
                   SelectSeq(ns, LAMBDA n : n.layer = "metro"),
                   SelectSeq(ns, LAMBDA n : n.layer = "mmts"), 1, 1)
        st3 == odDrivenLoop(st2, ns, original, failed, slice(sortedReachable, 5))
        st4 == expressHubLoop(st3, ns, original, failed,
                   SelectSeq(ns, LAMBDA n : (n.type = "hub" \/ n.type = "station")
                                            /\ (n.layer = "bus" \/ n.layer = "metro")),
                   1, 2)
    IN st4.candidates

\* .slice(0, 30) of the sorted list
capCandidates(sorted) == slice(sorted, CandidateCap)

generateCandidates(ns, original, failed, sortedReachable) ==
    capCandidates(sortByPriority(collectCandidates(ns, original, failed, sortedReachable)))

-----------------------------------------------------------------------------
\* greedyRecommendation

\* The objective value of a Metrics Bundle
objectiveValue(metrics, obj) ==
    IF obj = "time" THEN metrics.avgTime
    ELSE IF obj = "cost" THEN metrics.avgCost
    ELSE metrics.avgTransfers

\* time, cost and mode assigned to a candidate
candidateProperties(candidate, coeffs) ==
    IF candidate.type = "hub_neighbor" \/ candidate.type = "express_hub"
    THEN [time |-> candidate.distance * coeffs.timeMultiplier * 60,
          cost |-> candidate.distance * coeffs.costMultiplier * 6,
          transportMode |-> "bus"]
    ELSE IF candidate.type = "cross_rail"
    THEN [time |-> candidate.distance * coeffs.timeMultiplier * 420,
          cost |-> 0,
          transportMode |-> "walking"]
    ELSE [time |-> candidate.distance * coeffs.timeMultiplier * 84,
          cost |-> candidate.distance * coeffs.costMultiplier * 5,
          transportMode |-> "bus"]

\* The attributes of the edge added for a link; under 'transfers' the weight
\* is the fraction time * 0.001
linkAttributes(link, obj, reason) ==
    [weight |-> IF obj = "time" THEN link.time
                ELSE IF obj = "cost" THEN link.cost
                ELSE Frac(link.time, TimePerMin * 1000),
     mode |-> link.transportMode,
     transportMode |-> link.transportMode,
     time |-> link.time,
     cost |-> link.cost,
     distance |-> link.distance,
     edge_type |-> "inter",
     intra_or_inter |-> "inter",
     reason |-> reason]

\* const testGraph = workingGraph.copy()
testCopy(h, r) == copy(h, r)

\* improves that takes every positive improvement, whatever the best so far
improves_Positive(improvement, bestImprovement) == FracLess(Frac(0, 1), improvement)

\* improvement > bestImprovement
improves(improvement, bestImprovement) == FracLess(bestImprovement, improvement)

\* What the evaluation of a candidate that was added leaves: a is the
\* accumulators of computeMetrics(testGraph, odPairs, objective)
measuredTest(progress, link, baselineValue, ods, obj, a) ==
    [progress |-> progress, threw |-> FALSE, link |-> link, acc |-> a,
     metrics |-> finalMetrics(a, ods),
     improvement |-> FracSub(baselineValue, objectiveValue(finalMetrics(a, ods), obj))]

\* progressOf that counts the candidates from 1
progressOf_OneBased(g, i, bud) ==
    [iteration |-> g.iteration, candidateIndex |-> i,
     totalCandidates |-> Len(g.remainingCandidates), budget |-> bud]

\* The callback's argument for candidate i
progressOf(g, i, bud) ==
    [iteration |-> g.iteration, candidateIndex |-> i - 1,
     totalCandidates |-> Len(g.remainingCandidates), budget |-> bud]

\* { ...candidate, time, cost, transportMode }
linkOf(candidate, coeffs) == candidate @@ candidateProperties(candidate, coeffs)

\* evaluateCandidate that measures every candidate, whether or not the edge
\* can be added
evaluateCandidate_NoThrow(h, previous, g, i, ods, bud, obj, coeffs) ==
    measuredTest(progressOf(g, i, bud), linkOf(g.remainingCandidates[i], coeffs),
                 g.baselineValue, ods, obj,
                 metricsAccumulate(previous,
                     addEdge(h[g.workingGraph], g.remainingCandidates[i].from,
                             g.remainingCandidates[i].to,
                             linkAttributes(linkOf(g.remainingCandidates[i], coeffs), obj,
                                            <<"candidate", g.remainingCandidates[i].type>>)),
                     ods, obj))

\* The body of the loop over remainingCandidates for candidate i: what the
\* iteration reports, builds and measures.  The test graph is a new object of
\* the heap h and is dropped when the iteration ends.
evaluateCandidate(h, previous, g, i, ods, bud, obj, coeffs) ==
    LET candidate == g.remainingCandidates[i]
        c == testCopy(h, g.workingGraph)
    IN IF addEdgeThrows(c.heap[c.ref], candidate.from, candidate.to)
       THEN [progress |-> progressOf(g, i, bud), threw |-> TRUE,
             link |-> linkOf(candidate, coeffs), acc |-> previous]
       ELSE measuredTest(progressOf(g, i, bud), linkOf(candidate, coeffs),
                         g.baselineValue, ods, obj,
                         metricsAccumulate(previous,
                             addEdge(c.heap[c.ref], candidate.from, candidate.to,
                                     linkAttributes(linkOf(candidate, coeffs), obj,
                                                    <<"candidate", candidate.type>>)),
                             ods, obj))

\* bestImprovement while the loop runs: b is the index of bestCandidate, 0 for null
bestImprovementOf(tests, b) == IF b = 0 THEN Frac(0, 1) ELSE tests[b].improvement

\* The loop over remainingCandidates from candidate i on, given the evaluations
RECURSIVE evaluateCandidates(_, _, _, _)
evaluateCandidates(tests, n, i, b) ==
    IF i > n THEN b
    ELSE IF /\ ~tests[i].threw
            /\ improves(tests[i].improvement, bestImprovementOf(tests, b))
    THEN evaluateCandidates(tests, n, i + 1, i)
    ELSE evaluateCandidates(tests, n, i + 1, b)

\* What the progress callback and the evaluation of one candidate leave to see
logEntry(test) ==
    IF test.threw THEN [progress |-> test.progress, threw |-> TRUE]
    ELSE [progress |-> test.progress, threw |-> FALSE,
          validPairs |-> test.metrics.validPairs,
          disconnected |-> test.metrics.disconnected,
          totalPairs |-> test.metrics.totalPairs,
          improvement |-> test.improvement]

\* loopContinues with iteration <= budget
loopContinues_Inclusive(iteration, bud, remaining) == iteration <= bud /\ Len(remaining) > 0

\* iteration < budget && remainingCandidates.length > 0
loopContinues(iteration, bud, remaining) == iteration < bud /\ Len(remaining) > 0

\* bestImprovement <= 0 || !bestCandidate
noImprovement(bestImprovement, bestCandidate) ==
    bestImprovement.num <= 0 \/ bestCandidate = NullObject

\* remainingCandidates.filter(c => !(c.from === best.from && c.to === best.to))
withoutLink(remaining, best) ==
    SelectSeq(remaining, LAMBDA c : ~(c.from = best.from /\ c.to = best.to))

\* The locals at the loop's entry: c is the copy of the failed graph, m the
\* reference metrics computed on it
greedyEnter(c, cands, m, obj) ==
    [pc |-> "loop", workingGraph |-> c.ref, baselineMetrics |-> m,
     baselineValue |-> objectiveValue(m, obj),
     remainingCandidates |-> cands, selectedLinks |-> <<>>,
     iteration |-> 0, log |-> <<>>]

\* The accumulators the last evaluation that measured left behind
lastAcc(tests, n, previous) ==
    IF \A i \in 1..n : tests[i].threw THEN previous
    ELSE tests[CHOOSE i \in 1..n : ~tests[i].threw /\ \A j \in (i + 1)..n : tests[j].threw].acc

\* commitBest that takes the value reached by the committed link as the new
\* reference value
commitBest_Refresh(h, g, obj, previous, tests, b) ==
    IF noImprovement(bestImprovementOf(tests, b),
                     IF b = 0 THEN NullObject ELSE tests[b].link)
    THEN [heap |-> h, acc |-> lastAcc(tests, Len(g.remainingCandidates), previous),
          state |-> [g EXCEPT !.pc = "return",
                              !.log = @ \o [i \in DOMAIN tests |-> logEntry(tests[i])]]]
    ELSE IF addEdgeThrows(h[g.workingGraph], tests[b].link.from, tests[b].link.to)
    THEN [heap |-> h, acc |-> lastAcc(tests, Len(g.remainingCandidates), previous),
          state |-> [g EXCEPT !.iteration = @ + 1,
                              !.log = @ \o [i \in DOMAIN tests |-> logEntry(tests[i])]]]
    ELSE [heap |-> [h EXCEPT ![g.workingGraph] =
                       addEdge(@, tests[b].link.from, tests[b].link.to,
                               linkAttributes(tests[b].link, obj,
                                              <<"recommended", tests[b].link.type>>))],
          acc |-> lastAcc(tests, Len(g.remainingCandidates), previous),
          state |-> [g EXCEPT
              !.selectedLinks = Append(@, tests[b].link @@
                                          [improvement |-> tests[b].improvement,
                                           metrics |-> tests[b].metrics]),
              !.remainingCandidates = withoutLink(@, tests[b].link),
              !.baselineValue = objectiveValue(tests[b].metrics, obj),
              !.iteration = @ + 1,
              !.log = @ \o [i \in DOMAIN tests |-> logEntry(tests[i])]]]

\* The rest of an iteration of the outer loop, once the candidates have been
\* evaluated: b is the index of bestCandidate, 0 for null
commitBest(h, g, obj, previous, tests, b) ==
    IF noImprovement(bestImprovementOf(tests, b),
                     IF b = 0 THEN NullObject ELSE tests[b].link)
    THEN [heap |-> h, acc |-> lastAcc(tests, Len(g.remainingCandidates), previous),
          state |-> [g EXCEPT !.pc = "return",
                              !.log = @ \o [i \in DOMAIN tests |-> logEntry(tests[i])]]]
    ELSE IF addEdgeThrows(h[g.workingGraph], tests[b].link.from, tests[b].link.to)
    THEN [heap |-> h, acc |-> lastAcc(tests, Len(g.remainingCandidates), previous),
          state |-> [g EXCEPT !.iteration = @ + 1,
                              !.log = @ \o [i \in DOMAIN tests |-> logEntry(tests[i])]]]
    ELSE [heap |-> [h EXCEPT ![g.workingGraph] =
                       addEdge(@, tests[b].link.from, tests[b].link.to,
                               linkAttributes(tests[b].link, obj,
                                              <<"recommended", tests[b].link.type>>))],
          acc |-> lastAcc(tests, Len(g.remainingCandidates), previous),
          state |-> [g EXCEPT
              !.selectedLinks = Append(@, tests[b].link @@
                                          [improvement |-> tests[b].improvement,
                                           metrics |-> tests[b].metrics]),
              !.remainingCandidates = withoutLink(@, tests[b].link),
              !.iteration = @ + 1,
              !.log = @ \o [i \in DOMAIN tests |-> logEntry(tests[i])]]]

\* The choice of bestCandidate among the evaluated candidates
chooseBest(h, g, obj, previous, tests) ==
    commitBest(h, g, obj, previous, tests,
               evaluateCandidates(tests, Len(g.remainingCandidates), 1, 0))

\* One iteration of the outer loop: every remaining candidate is evaluated
\* once, in the order of the list
greedyRound(h, g, ods, bud, obj, coeffs, previous) ==
    chooseBest(h, g, obj, previous,
               <<>> \o [i \in 1..Len(g.remainingCandidates) |->
                           evaluateCandidate(h, previous, g, i, ods, bud, obj, coeffs)])

\* greedyReturn that hands back the reference metrics
greedyReturn_Reference(g, metrics) ==
    [g EXCEPT !.pc = "done"]
        @@ [finalGraph |-> g.workingGraph, finalMetrics |-> g.baselineMetrics]

\* return {selectedLinks, finalGraph, finalMetrics}: metrics is
\* computeMetrics(workingGraph, odPairs, objective)
greedyReturn(g, metrics) ==
    [g EXCEPT !.pc = "done"] @@ [finalGraph |-> g.workingGraph, finalMetrics |-> metrics]

-----------------------------------------------------------------------------
\* Values of the variables a specification does not use

NoGreedy == [pc |-> "idle"]
NoQuery == [kind |-> "none"]
NoAcc ==
    [results |-> <<>>, totalTime |-> 0, totalCost |-> 0, totalTransfers |-> 0,
     disconnected |-> 0, validPairs |-> 0]

-----------------------------------------------------------------------------
\* SpecPath: single path queries on every small network.
\* Four nodes, an edge or none for each of the six pairs (in a fixed order of
\* the edge file), built by buildGraph; optionally one node fails; then one
\* OD pair is queried, alone and as a one-pair batch.

MaxPathEdges == 4
PathTimes == {1, 2}

S == <<"S">>
A == <<"A">>
X == <<"X">>
T == <<"T">>
Zz == <<"Zz">>

nodeRecord(id, lat, layer, type, region, name) ==
    [node_id |-> id, lat |-> lat, lon |-> 0, layer |-> layer, type |-> type,
     region |-> region, name |-> name]

PathNodes ==
    << nodeRecord(S, 0, "metro", "station", "north", "Start"),
       nodeRecord(A, 10, "metro", "station", "north", ""),
       nodeRecord(X, 20, "bus", "hub", "south", "Cross"),
       nodeRecord(T, 30, "bus", "hub", "south", "") >>

PathPairs == << <<S, X>>, <<S, A>>, <<A, X>>, <<X, T>>, <<A, T>>, <<S, T>> >>

PathEdgeOptions ==
    {[mode |-> "none", time |-> 0]}
        \cup [mode : {"metro", "bus"}, time : PathTimes]

\* An edge record of the edge file: 2 km per minute, a flat bus fare
edgeRecord(from, to, mode, time, inter) ==
    [from_id |-> from, to_id |-> to, mode |-> mode, edge_type |-> "",
     intra_or_inter |-> inter, distance_km |-> 20 * time, time_min |-> time,
     cost_rs |-> IF mode = "bus" THEN 8 ELSE 5 * time]

pathEdgeList(choice) ==
    LET RECURSIVE go(_)
        go(i) == IF i > Len(PathPairs) THEN <<>>
                 ELSE IF choice[i].mode = "none" THEN go(i + 1)
                 ELSE << edgeRecord(PathPairs[i][1], PathPairs[i][2],
                                    choice[i].mode, choice[i].time, "intra") >>
                      \o go(i + 1)
    IN go(1)

PathQueries == { <<S, T>>, <<T, S>>, <<S, S>>, <<S, Zz>>, <<Zz, Zz>> }

PathCoefficients == {EveningPeak}

InitPath ==
    /\ nodes = PathNodes
    /\ \E choice \in [1..Len(PathPairs) -> PathEdgeOptions] :
          /\ Len(pathEdgeList(choice)) <= MaxPathEdges
          /\ edges = pathEdgeList(choice)
    /\ objective \in Objectives
    /\ coefficients \in PathCoefficients
    /\ routeContext = NullObject
    /\ failureType = "none"
    /\ failureTargets = <<>>
    /\ odPairs = <<>>
    /\ budget = 0
    /\ heap = <<>>
    /\ originalGraph = 0
    /\ failedGraph = 0
    /\ baselineMetrics = NullObject
    /\ scenarioMetrics = NullObject
    /\ candidates = <<>>
    /\ greedy = NoGreedy
    /\ query = NoQuery
    /\ pathResult = NullObject
    /\ acc = NoAcc
    /\ pc = "input"

\* const graph = buildGraph(nodes, edges, objective, todMultiplier, routeContext)
PathBuild ==
    /\ pc = "input"
    /\ heap' = Append(heap, buildGraph(nodes, edges, objective, coefficients, routeContext))
    /\ originalGraph' = Len(heap) + 1
    /\ pc' = "built"
    /\ UNCHANGED <<nodes, edges, objective, coefficients, routeContext, failureType,
                   failureTargets, odPairs, budget, failedGraph, baselineMetrics,
                   scenarioMetrics, candidates, greedy, query, pathResult, acc>>

\* failed = applyFailure(graph, 'node', [id])
PathFail ==
    /\ pc = "built"
    /\ \E id \in {T} :
          LET r == applyFailure(heap, originalGraph, "node", <<id>>)
          IN /\ heap' = r.heap
             /\ failedGraph' = r.ref
             /\ failureType' = "node"
             /\ failureTargets' = <<id>>
    /\ pc' = "failed"
    /\ UNCHANGED <<nodes, edges, objective, coefficients, routeContext, odPairs, budget,
                   originalGraph, baselineMetrics, scenarioMetrics, candidates, greedy,
                   query, pathResult, acc>>

\* The graph a query runs on: the failed graph once there is one
queryGraph == IF failedGraph # 0 THEN failedGraph ELSE originalGraph

\* computeShortestPath(graph, source, target, objective), and
\* computeMetrics(graph, [{source, target}], objective)
PathQuery ==
    /\ pc \in {"built", "failed"}
    /\ \E q \in PathQueries :
          LET od == [source |-> q[1], target |-> q[2], sourceName |-> "", targetName |-> ""]
              a == metricsAccumulate(acc, heap[queryGraph], <<od>>, objective)
          IN /\ query' = [kind |-> "path", graph |-> queryGraph,
                          source |-> q[1], target |-> q[2]]
             /\ odPairs' = <<od>>
             /\ pathResult' = computeShortestPath(heap[queryGraph], q[1], q[2], objective)
             /\ acc' = a
             /\ scenarioMetrics' = finalMetrics(a, <<od>>)
    /\ pc' = "queried"
    /\ UNCHANGED <<nodes, edges, objective, coefficients, routeContext, failureType,
                   failureTargets, budget, heap, originalGraph, failedGraph,
                   baselineMetrics, candidates, greedy>>

NextPath == PathBuild \/ PathFail \/ PathQuery

SpecPath == InitPath /\ [][NextPath]_vars


-----------------------------------------------------------------------------
\* What the claims compare the searches with: every simple path, by enumeration

RECURSIVE extendPaths(_, _, _)
extendPaths(graph, path, target) ==
    IF path[Len(path)] = target THEN {path}
    ELSE LET ns == neighbors(graph, path[Len(path)])
             fresh == {ns[i] : i \in 1..Len(ns)} \ {path[i] : i \in 1..Len(path)}
         IN UNION {extendPaths(graph, Append(path, n), target) : n \in fresh}

SimplePaths(graph, source, target) ==
    IF hasNode(graph, source) /\ hasNode(graph, target)
    THEN extendPaths(graph, <<source>>, target)
    ELSE {}

EdgeAt(graph, path, i) == getEdgeAttributes(graph, path[i], path[i + 1])

RECURSIVE SumOver(_, _, _, _)
SumOver(graph, path, i, field) ==
    IF i >= Len(path) THEN 0
    ELSE EdgeAt(graph, path, i)[field] + SumOver(graph, path, i + 1, field)

PathTime(graph, path) == SumOver(graph, path, 1, "time")
PathCost(graph, path) == SumOver(graph, path, 1, "cost")
PathWeight(graph, path) == SumOver(graph, path, 1, "weight")

ModeChanges(graph, path) ==
    Cardinality({i \in 1..(Len(path) - 2) :
                    EdgeAt(graph, path, i).mode # EdgeAt(graph, path, i + 1).mode})

Answered == pc = "queried" /\ query.kind = "path"
Asked == heap[query.graph]
Found == Answered /\ pathResult.path # NullPath /\ query.source # query.target

\* C2: the path the transfer-minimizing search returns has the fewest mode
\* changes of all paths between its endpoints and, among the paths with that
\* many mode changes, the least total time.
C2_LexicographicOptimum ==
    (Found /\ objective = "transfers") =>
        \A p \in SimplePaths(Asked, query.source, query.target) :
            /\ ModeChanges(Asked, p) >= pathResult.transfers
            /\ (ModeChanges(Asked, p) = pathResult.transfers
                    => PathTime(Asked, p) >= pathResult.time)

C9_TrivialPath ==
    (Answered /\ query.source = query.target /\ hasNode(Asked, query.source)) =>
        /\ pathResult.path = <<query.source>>
        /\ pathResult.distance = 0
        /\ pathResult.time = 0
        /\ pathResult.cost = 0
        /\ pathResult.transfers = 0
        /\ scenarioMetrics.validPairs = 1
        /\ scenarioMetrics.disconnected = 0
        /\ scenarioMetrics.results[1].reachable

C9_Witness ==
    /\ Answered
    /\ query.source = query.target
    /\ hasNode(Asked, query.source)
    /\ Len(Asked.edges) > 0

\* C10: an endpoint absent from the graph (never there, or removed by a
\* failure; also when source = target), or no path between the endpoints: the
\* result is the unreachable sentinel and the batch counts the pair as
\* disconnected.
C10_UnreachableSentinel ==
    (Answered /\ SimplePaths(Asked, query.source, query.target) = {}) =>
        /\ pathResult.path = NullPath
        /\ pathResult.distance = UNREACHABLE
        /\ pathResult.time = UNREACHABLE
        /\ pathResult.cost = UNREACHABLE
        /\ pathResult.transfers = UNREACHABLE
        /\ scenarioMetrics.disconnected = 1
        /\ scenarioMetrics.validPairs = 0
        /\ ~scenarioMetrics.results[1].reachable

\* C10 witness: the target was removed by the failure
C10_Witness ==
    /\ Answered
    /\ failureType = "node"
    /\ query.source = S
    /\ query.target = T
    /\ hasNode(heap[originalGraph], T)
    /\ ~hasNode(Asked, T)
    /\ pathResult.path = NullPath


-----------------------------------------------------------------------------
\* Spec: the scenario run of the host (runScenario), on four networks.

MaxBudget == 2

M1 == <<"M1", "Metro">>
M2 == <<"M2", "Metro">>
R1 == <<"R1">>
H1 == <<"H1">>
H2 == <<"H2">>
H3 == <<"H3">>
P1 == <<"P1">>

fileEdge(from, to, mode, inter, dist, time, cost) ==
    [from_id |-> from, to_id |-> to, mode |-> mode, edge_type |-> "",
     intra_or_inter |-> inter, distance_km |-> dist, time_min |-> time, cost_rs |-> cost]

odPair(source, target) ==
    [source |-> source, target |-> target, sourceName |-> "", targetName |-> ""]

\* The host's choice of OD pairs: one selected pair, which is also the route
\* context, or the sampled list with no route context
selected(source, target) ==
    [routeContext |-> [source |-> source, target |-> target],
     odPairs |-> <<odPair(source, target)>>]

sampled(list) == [routeContext |-> NullObject, odPairs |-> list]

failure(kind, targets) == [failureType |-> kind, failureTargets |-> targets]

\* A town: a metro line, an mmts stop, a bus corridor with three hubs.  The
\* edge file ends with a second record for a connected pair and a record
\* whose endpoint is no node.
Town ==
    [nodes |-> << nodeRecord(M1, 0, "metro", "station", "north", "Miyapur"),
                  nodeRecord(M2, 30, "metro", "station", "north", "Ameerpet"),
                  nodeRecord(R1, 10, "mmts", "station", "north", ""),
                  nodeRecord(H1, 40, "bus", "hub", "south", "Koti"),
                  nodeRecord(P1, 50, "bus", "", "south", ""),
                  nodeRecord(H2, 80, "bus", "hub", "south", ""),
                  nodeRecord(H3, 120, "bus", "hub", "east", "Uppal") >>,
     edges |-> << fileEdge(M1, M2, "metro", "intra", 30, 5, 0),
                  fileEdge(M2, H1, "auto", "inter", 10, 3, 4),
                  fileEdge(H1, P1, "bus", "intra", 10, 3, 5),
                  fileEdge(P1, H2, "bus", "intra", 30, 8, 10),
                  fileEdge(H2, H3, "bus", "intra", 40, 10, 12),
                  fileEdge(R1, M2, "mmts", "intra", 20, 4, 5),
                  fileEdge(M2, M1, "bus", "intra", 30, 9, 9),
                  fileEdge(H3, Zz, "bus", "intra", 10, 2, 2) >>,
     failures |-> { failure("none", <<>>),
                    failure("node", <<>>),
                    failure("node", <<H2>>),
                    failure("node", <<M2, Zz>>),
                    failure("edge", <<pairKey(H1, P1)>>),
                    failure("edge", <<pairKey(M1, M2), pairKey(Zz, H1)>>),
                    failure("layer", <<"bus">>),
                    failure("layer", <<"mmts", "tram">>),
                    failure("region", <<"north">>) },
     choices |-> { sampled(<<>>),
                   selected(M1, H3),
                   selected(M1, M2),
                   selected(H1, H1),
                   sampled(<<odPair(M1, H3), odPair(R1, H2), odPair(H3, H1)>>) },
     objectives |-> Objectives,
     coefficients |-> {Standard, EveningPeak}]

D(i) == <<"D", ToString(i)>>
W(i) == <<"W", ToString(i)>>
B1 == <<"B1">>
B2 == <<"B2">>

\* A dense interchange: six metro stations and six mmts stations within
\* walking distance of each other, and two bus hubs
Dense ==
    [nodes |-> [i \in 1..6 |-> nodeRecord(D(i), i - 1, "metro", "station", "north", "")]
               \o [i \in 1..6 |-> nodeRecord(W(i), 9 + i, "mmts", "station", "north", "")]
               \o << nodeRecord(B1, 100, "bus", "hub", "south", ""),
                     nodeRecord(B2, 130, "bus", "hub", "south", "") >>,
     edges |-> [i \in 1..5 |-> fileEdge(D(i), D(i + 1), "metro", "intra", 1, 3, 0)]
               \o [i \in 1..5 |-> fileEdge(W(i), W(i + 1), "mmts", "intra", 1, 3, 5)]
               \o << fileEdge(D(6), W(1), "walk", "inter", 5, 6, 0),
                     fileEdge(B1, D(6), "bus", "intra", 95, 30, 20) >>,
     failures |-> { failure("none", <<>>), failure("node", <<D(3)>>) },
     choices |-> { sampled(<<odPair(D(1), B2), odPair(D(1), W(6))>>) },
     objectives |-> {"time", "cost"},
     coefficients |-> {Standard}]

\* Four bus hubs whose ids hold '_': K and N_E are 3 km apart, and so are K_N
\* and E; the pairs K, N_E and K_N, E have the same joined key K_N_E
Junction ==
    [nodes |-> << nodeRecord(<<"K">>, 0, "bus", "hub", "west", ""),
                  nodeRecord(<<"N", "E">>, 30, "bus", "hub", "west", ""),
                  nodeRecord(<<"K", "N">>, 200, "bus", "hub", "west", ""),
                  nodeRecord(<<"E">>, 230, "bus", "hub", "west", "") >>,
     edges |-> << fileEdge(<<"K">>, <<"K", "N">>, "bus", "intra", 200, 40, 20),
                  fileEdge(<<"N", "E">>, <<"E">>, "bus", "intra", 200, 40, 20) >>,
     failures |-> { failure("none", <<>>), failure("node", <<<<"N", "E">>>>) },
     choices |-> { sampled(<<odPair(<<"K">>, <<"E">>), odPair(<<"K", "N">>, <<"E">>)>>) },
     objectives |-> {"time"},
     coefficients |-> {Standard}]

\* Two bus stops joined by one edge: no pair of nodes qualifies as a candidate
Hamlet ==
    [nodes |-> << nodeRecord(<<"V1">>, 0, "bus", "", "west", ""),
                  nodeRecord(<<"V2">>, 10, "bus", "", "west", "") >>,
     edges |-> << fileEdge(<<"V1">>, <<"V2">>, "bus", "intra", 10, 4, 5) >>,
     failures |-> { failure("none", <<>>), failure("node", <<<<"V2">>>>) },
     choices |-> { sampled(<<odPair(<<"V1">>, <<"V2">>)>>) },
     objectives |-> {"time"},
     coefficients |-> {Standard}]

Scenarios == {Town, Dense, Junction, Hamlet}

Init ==
    \E sc \in Scenarios :
        /\ nodes = sc.nodes
        /\ edges = sc.edges
        /\ objective \in sc.objectives
        /\ coefficients \in sc.coefficients
        /\ \E ch \in sc.choices : routeContext = ch.routeContext /\ odPairs = ch.odPairs
        /\ \E f \in sc.failures :
              failureType = f.failureType /\ failureTargets = f.failureTargets
        /\ budget \in 0..MaxBudget
        /\ heap = <<>>
        /\ originalGraph = 0
        /\ failedGraph = 0
        /\ baselineMetrics = NullObject
        /\ scenarioMetrics = NullObject
        /\ candidates = <<>>
        /\ greedy = NoGreedy
        /\ query = NoQuery
        /\ pathResult = NullObject
        /\ acc = NoAcc
        /\ pc = "start"

inputs == <<nodes, edges, objective, coefficients, routeContext, failureType,
            failureTargets, odPairs, budget>>

\* const graph = buildGraph(nodes, edges, objective, todMultiplier, routeContext)
Build ==
    /\ pc = "start"
    /\ heap' = Append(heap, buildGraph(nodes, edges, objective, coefficients, routeContext))
    /\ originalGraph' = Len(heap) + 1
    /\ pc' = "built"
    /\ UNCHANGED <<inputs, failedGraph, baselineMetrics, scenarioMetrics, candidates,
                   greedy, query, pathResult, acc>>

\* const baseline = computeMetrics(graph, odPairs, objective)
Baseline ==
    /\ pc = "built"
    /\ acc' = metricsAccumulate(acc, heap[originalGraph], odPairs, objective)
    /\ baselineMetrics' = finalMetrics(acc', odPairs)
    /\ query' = [kind |-> "metrics", graph |-> originalGraph]
    /\ pc' = "baselined"
    /\ UNCHANGED <<inputs, heap, originalGraph, failedGraph, scenarioMetrics, candidates,
                   greedy, pathResult>>

\* failureType === 'none': failed = graph
NoFailure ==
    /\ pc = "baselined"
    /\ failureType = "none"
    /\ failedGraph' = originalGraph
    /\ pc' = "failed"
    /\ UNCHANGED <<inputs, heap, originalGraph, baselineMetrics, scenarioMetrics,
                   candidates, greedy, query, pathResult, acc>>

\* The targets the host hands over: none for a kind it does not know
hostTargets == IF failureType \in {"node", "edge", "layer"} THEN failureTargets ELSE <<>>

\* failed = applyFailure(graph, failureType, failureTargets)
ApplyFailure ==
    /\ pc = "baselined"
    /\ failureType # "none"
    /\ LET r == applyFailure(heap, originalGraph, failureType, hostTargets)
       IN heap' = r.heap /\ failedGraph' = r.ref
    /\ pc' = "failed"
    /\ UNCHANGED <<inputs, originalGraph, baselineMetrics, scenarioMetrics, candidates,
                   greedy, query, pathResult, acc>>

\* const scenario = computeMetrics(failed, odPairs, objective)
ScenarioMetrics ==
    /\ pc = "failed"
    /\ acc' = metricsAccumulate(acc, heap[failedGraph], odPairs, objective)
    /\ scenarioMetrics' = finalMetrics(acc', odPairs)
    /\ query' = [kind |-> "metrics", graph |-> failedGraph]
    /\ pc' = "measured"
    /\ UNCHANGED <<inputs, heap, originalGraph, failedGraph, baselineMetrics, candidates,
                   greedy, pathResult>>

\* budget is 0: no recommendation is requested
SkipRecommendation ==
    /\ pc = "measured"
    /\ budget = 0
    /\ pc' = "done"
    /\ UNCHANGED <<inputs, heap, originalGraph, failedGraph, baselineMetrics,
                   scenarioMetrics, candidates, greedy, query, pathResult, acc>>

\* const candidates = generateCandidates(nodes, graph, failed, scenario.results).
\* The comparator of the sort of the reachable results, (b.time - a.time) -
\* (a.time - 0), is not a consistent order, so the order the sort leaves is the
\* engine's: any permutation.
GenerateCandidates ==
    /\ pc = "measured"
    /\ budget > 0
    /\ LET reachable == SelectSeq(scenarioMetrics.results, LAMBDA r : r.reachable)
       IN \E f \in Permutations(1..Len(reachable)) :
             candidates' = generateCandidates(nodes, heap[originalGraph], heap[failedGraph],
                                              [i \in 1..Len(reachable) |-> reachable[f[i]]])
    /\ pc' = "candidates"
    /\ UNCHANGED <<inputs, heap, originalGraph, failedGraph, baselineMetrics,
                   scenarioMetrics, greedy, query, pathResult, acc>>

\* greedyRecommendation(failed, candidates, odPairs, budget, ...): up to the loop
GreedyEnter ==
    /\ pc = "candidates"
    /\ heap' = copy(heap, failedGraph).heap
    /\ acc' = metricsAccumulate(acc, heap'[copy(heap, failedGraph).ref], odPairs, objective)
    /\ greedy' = greedyEnter(copy(heap, failedGraph), candidates,
                             finalMetrics(acc', odPairs), objective)
    /\ pc' = "greedy"
    /\ UNCHANGED <<inputs, originalGraph, failedGraph, baselineMetrics, scenarioMetrics,
                   candidates, query, pathResult>>

\* One round of the loop
GreedyRound ==
    /\ pc = "greedy"
    /\ greedy.pc = "loop"
    /\ loopContinues(greedy.iteration, budget, greedy.remainingCandidates)
    /\ LET r == greedyRound(heap, greedy, odPairs, budget, objective, coefficients, acc)
       IN heap' = r.heap /\ acc' = r.acc /\ greedy' = r.state
    /\ UNCHANGED <<inputs, originalGraph, failedGraph, baselineMetrics, scenarioMetrics,
                   candidates, query, pathResult, pc>>

\* The loop is left: the result is returned to the host
GreedyReturn ==
    /\ pc = "greedy"
    /\ \/ greedy.pc = "return"
       \/ /\ greedy.pc = "loop"
          /\ ~loopContinues(greedy.iteration, budget, greedy.remainingCandidates)
    /\ acc' = metricsAccumulate(acc, heap[greedy.workingGraph], odPairs, objective)
    /\ greedy' = greedyReturn(greedy, finalMetrics(acc', odPairs))
    /\ pc' = "done"
    /\ UNCHANGED <<inputs, heap, originalGraph, failedGraph, baselineMetrics, scenarioMetrics,
                   candidates, query, pathResult>>

Next ==
    \/ Build
    \/ Baseline
    \/ NoFailure
    \/ ApplyFailure
    \/ ScenarioMetrics
    \/ SkipRecommendation
    \/ GenerateCandidates
    \/ GreedyEnter
    \/ GreedyRound
    \/ GreedyReturn

Spec == Init /\ [][Next]_vars

-----------------------------------------------------------------------------
\* SpecCandidates: the scenario run up to generateCandidates, on a corridor of
\* nine bus stops with six OD pairs, three stops apart, which all stay
\* reachable.  The pair that starts at stop i takes 15 + 3 * i minutes; the
\* pairs are listed from the longest trip to the shortest.

Corridor ==
    [nodes |-> [i \in 1..9 |-> nodeRecord(<<"L", ToString(i)>>, 10 * i, "bus", "", "west", "")]
               \o << nodeRecord(<<"Y">>, 500, "bus", "", "west", "") >>,
     edges |-> [i \in 1..8 |-> fileEdge(<<"L", ToString(i)>>, <<"L", ToString(i + 1)>>,
                                        "bus", "intra", 10, 4 + i, 5)],
     failures |-> { failure("none", <<>>), failure("node", <<<<"Y">>>>) },
     choices |-> { sampled([i \in 1..6 |-> odPair(<<"L", ToString(7 - i)>>,
                                                  <<"L", ToString(10 - i)>>)]) },
     objectives |-> {"time"},
     coefficients |-> {Standard}]

InitCandidates ==
    /\ nodes = Corridor.nodes
    /\ edges = Corridor.edges
    /\ objective \in Corridor.objectives
    /\ coefficients \in Corridor.coefficients
    /\ \E ch \in Corridor.choices : routeContext = ch.routeContext /\ odPairs = ch.odPairs
    /\ \E f \in Corridor.failures :
          failureType = f.failureType /\ failureTargets = f.failureTargets
    /\ budget = 1
    /\ heap = <<>>
    /\ originalGraph = 0
    /\ failedGraph = 0
    /\ baselineMetrics = NullObject
    /\ scenarioMetrics = NullObject
    /\ candidates = <<>>
    /\ greedy = NoGreedy
    /\ query = NoQuery
    /\ pathResult = NullObject
    /\ acc = NoAcc
    /\ pc = "start"

NextCandidates ==
    \/ Build
    \/ Baseline
    \/ NoFailure
    \/ ApplyFailure
    \/ ScenarioMetrics
    \/ GenerateCandidates

SpecCandidates == InitCandidates /\ [][NextCandidates]_vars

-----------------------------------------------------------------------------
\* SpecGreedy: greedyRecommendation called on the town's graph, whole or with
\* hub H2 removed, with candidate lists a caller can pass: lists that name a
\* pair twice (in the same and in the opposite orientation), a pair that is
\* joined already, and nodes the graph does not have.

candidate(from, to, type, priority, distance) ==
    [from |-> from, to |-> to, fromName |-> "", toName |-> "", type |-> type,
     distance |-> distance, priority |-> priority]

CandidateLists ==
    { <<>>,
      << candidate(H1, H3, "express_hub", 6, 80),
         candidate(H3, H1, "express_hub", 6, 80),
         candidate(M1, M2, "cross_rail", 8, 30),
         candidate(H1, Zz, "hub_neighbor", 10, 20),
         candidate(M2, H2, "express_hub", 6, 50) >>,
      << candidate(M1, H1, "express_hub", 6, 40),
         candidate(M1, H1, "express_hub", 6, 40),
         candidate(H2, M1, "od_driven", 7, 80) >>,
      << candidate(Zz, H1, "hub_neighbor", 10, 20) >>,
      << candidate(M1, M2, "cross_rail", 8, 30),
         candidate(M2, M1, "cross_rail", 8, 30) >> }

InitGreedy ==
    /\ nodes = Town.nodes
    /\ edges = Town.edges
    /\ objective \in Objectives
    /\ coefficients = Standard
    /\ routeContext = NullObject
    /\ odPairs \in { <<odPair(M1, H3), odPair(R1, H2), odPair(H3, H1)>>,
                     <<odPair(M1, H1), odPair(H3, H1)>> }
    /\ \E f \in {failure("none", <<>>), failure("node", <<H2>>)} :
          /\ failureType = f.failureType
          /\ failureTargets = f.failureTargets
          /\ LET built == <<buildGraph(nodes, edges, objective, coefficients, routeContext)>>
             IN IF f.failureType = "none"
                THEN heap = built /\ failedGraph = 1
                ELSE /\ heap = applyFailure(built, 1, f.failureType, f.failureTargets).heap
                     /\ failedGraph = applyFailure(built, 1, f.failureType,
                                                   f.failureTargets).ref
    /\ budget \in 0..MaxBudget
    /\ originalGraph = 1
    /\ baselineMetrics = NullObject
    /\ scenarioMetrics = NullObject
    /\ candidates \in CandidateLists
    /\ greedy = NoGreedy
    /\ query = NoQuery
    /\ pathResult = NullObject
    /\ acc = NoAcc
    /\ pc = "candidates"

NextGreedy ==
    \/ GreedyEnter
    \/ GreedyRound
    \/ GreedyReturn

SpecGreedy == InitGreedy /\ [][NextGreedy]_vars

-----------------------------------------------------------------------------
\* SpecBuild: buildGraph on every short edge file, one record of edges.forEach
\* at a time.  The records repeat pairs in both orientations and name a node
\* that does not exist.

MaxEdgeRecords == 3

BuildRecords ==
    { edgeRecord(S, A, "metro", 1, "intra"),
      edgeRecord(A, S, "bus", 2, "intra"),
      edgeRecord(S, A, "bus", 2, "inter"),
      edgeRecord(A, X, "bus", 1, "intra"),
      edgeRecord(X, A, "metro", 2, "intra"),
      edgeRecord(X, T, "bus", 1, "intra"),
      edgeRecord(S, Zz, "bus", 1, "intra") }

InitBuild ==
    /\ nodes = PathNodes
    /\ edges \in UNION {[1..n -> BuildRecords] : n \in 0..MaxEdgeRecords}
    /\ objective \in Objectives
    /\ coefficients \in {Standard, Night}
    /\ routeContext = NullObject
    /\ failureType = "none"
    /\ failureTargets = <<>>
    /\ odPairs = <<>>
    /\ budget = 0
    /\ heap = <<>>
    /\ originalGraph = 0
    /\ failedGraph = 0
    /\ baselineMetrics = NullObject
    /\ scenarioMetrics = NullObject
    /\ candidates = <<>>
    /\ greedy = NoGreedy
    /\ query = NoQuery
    /\ pathResult = NullObject
    /\ acc = NoAcc
    /\ pc = "input"

buildFrame == <<nodes, edges, objective, coefficients, routeContext, failureType,
                failureTargets, odPairs, budget, failedGraph, baselineMetrics,
                scenarioMetrics, candidates, greedy, pathResult, acc>>

\* new Graph(...) and nodes.forEach(graph.addNode)
BuildNodes ==
    /\ pc = "input"
    /\ heap' = Append(heap, addNodes(nodes))
    /\ originalGraph' = Len(heap) + 1
    /\ query' = [kind |-> "build", next |-> 1]
    /\ pc' = "edges"
    /\ UNCHANGED buildFrame

\* One iteration of edges.forEach
BuildEdge ==
    /\ pc = "edges"
    /\ query.next <= Len(edges)
    /\ heap' = [heap EXCEPT ![originalGraph] =
                   addEdgeRecord(@, edges[query.next], objective, coefficients, routeContext)]
    /\ query' = [query EXCEPT !.next = @ + 1]
    /\ UNCHANGED <<buildFrame, originalGraph, pc>>

\* return graph
BuildReturn ==
    /\ pc = "edges"
    /\ query.next > Len(edges)
    /\ pc' = "built"
    /\ UNCHANGED <<buildFrame, heap, originalGraph, query>>

NextBuild == BuildNodes \/ BuildEdge \/ BuildReturn

SpecBuild == InitBuild /\ [][NextBuild]_vars

-----------------------------------------------------------------------------
\* SpecSample: generateODSample(nodes, sampleSize), one pass of its loop at a
\* time, the two random indices being any two indices.  query holds the
\* locals sampleSize and usedPairs, odPairs the list being filled.

MaxSampleSize == 3
MaxMajorNodes == 4

\* nodes.filter(n => n.type === 'station' || n.type === 'hub' ||
\*                   (n.layer === 'metro' && n.name))
majorNodes(ns) ==
    SelectSeq(ns, LAMBDA n : \/ n.type = "station"
                             \/ n.type = "hub"
                             \/ (n.layer = "metro" /\ n.name # ""))

\* odPairs.length < sampleSize && odPairs.length < m * (m - 1) / 2
sampleContinues(ods, sampleSize, m) ==
    Len(ods) < sampleSize /\ 2 * Len(ods) < m * (m - 1)

\* The body of the loop for the indices i and j (from 1): st is [odPairs, usedPairs]
drawPair(major, i, j, st) ==
    IF i # j
       /\ pairKey(major[i].node_id, major[j].node_id) \notin st.usedPairs
       /\ pairKey(major[j].node_id, major[i].node_id) \notin st.usedPairs
    THEN [odPairs |-> Append(st.odPairs,
                             [source |-> major[i].node_id, target |-> major[j].node_id,
                              sourceName |-> major[i].name, targetName |-> major[j].name]),
          usedPairs |-> st.usedPairs \cup {pairKey(major[i].node_id, major[j].node_id)}]
    ELSE st

\* Node lists: none, one major node, three major nodes among others, four
\* major nodes, and three major nodes whose ids hold '_' (A with B_A, and A_B
\* with A, join to the same key A_B_A)
SampleLists ==
    { <<>>,
      << nodeRecord(<<"S">>, 0, "bus", "hub", "", "") >>,
      << nodeRecord(<<"S">>, 0, "metro", "", "", "Start"),
         nodeRecord(<<"P">>, 5, "bus", "", "", "Stop"),
         nodeRecord(<<"A">>, 10, "bus", "hub", "", ""),
         nodeRecord(<<"Q">>, 15, "metro", "", "", ""),
         nodeRecord(<<"T">>, 30, "mmts", "station", "", "") >>,
      << nodeRecord(<<"S">>, 0, "bus", "hub", "", ""),
         nodeRecord(<<"A">>, 10, "bus", "hub", "", ""),
         nodeRecord(<<"X">>, 20, "bus", "hub", "", ""),
         nodeRecord(<<"T">>, 30, "bus", "hub", "", "") >>,
      << nodeRecord(<<"A">>, 0, "bus", "hub", "", ""),
         nodeRecord(<<"B", "A">>, 10, "bus", "hub", "", ""),
         nodeRecord(<<"A", "B">>, 20, "bus", "hub", "", "") >> }

\* The state when the loop is reached
InitSample ==
    /\ nodes \in SampleLists
    /\ \E n \in 0..MaxSampleSize :
          query = [kind |-> "sample", sampleSize |-> n, usedPairs |-> {}]
    /\ odPairs = <<>>
    /\ edges = <<>>
    /\ objective = "time"
    /\ coefficients = Standard
    /\ routeContext = NullObject
    /\ failureType = "none"
    /\ failureTargets = <<>>
    /\ budget = 0
    /\ heap = <<>>
    /\ originalGraph = 0
    /\ failedGraph = 0
    /\ baselineMetrics = NullObject
    /\ scenarioMetrics = NullObject
    /\ candidates = <<>>
    /\ greedy = NoGreedy
    /\ pathResult = NullObject
    /\ acc = NoAcc
    /\ pc = "sampling"

\* One pass of the loop, the random indices being i and j
SampleDraw(i, j) ==
    /\ pc = "sampling"
    /\ sampleContinues(odPairs, query.sampleSize, Len(majorNodes(nodes)))
    /\ i \in 1..Len(majorNodes(nodes))
    /\ j \in 1..Len(majorNodes(nodes))
    /\ odPairs' = drawPair(majorNodes(nodes), i, j,
                           [odPairs |-> odPairs, usedPairs |-> query.usedPairs]).odPairs
    /\ query' = [query EXCEPT !.usedPairs =
                    drawPair(majorNodes(nodes), i, j,
                             [odPairs |-> odPairs, usedPairs |-> @]).usedPairs]
    /\ UNCHANGED <<nodes, edges, objective, coefficients, routeContext, failureType,
                   failureTargets, budget, heap, originalGraph, failedGraph,
                   baselineMetrics, scenarioMetrics, candidates, greedy, pathResult,
                   acc, pc>>

\* return odPairs
SampleReturn ==
    /\ pc = "sampling"
    /\ ~sampleContinues(odPairs, query.sampleSize, Len(majorNodes(nodes)))
    /\ pc' = "sampled"
    /\ UNCHANGED <<nodes, edges, objective, coefficients, routeContext, failureType,
                   failureTargets, odPairs, budget, heap, originalGraph, failedGraph,
                   baselineMetrics, scenarioMetrics, candidates, greedy, query,
                   pathResult, acc>>

NextSample ==
    \/ \E i, j \in 1..MaxMajorNodes : SampleDraw(i, j)
    \/ SampleReturn

\* Fair random choice: a pair of indices that would add a pair is drawn at
\* some time, and the loop is left once its condition fails
SpecSample ==
    /\ InitSample
    /\ [][NextSample]_vars
    /\ \A i, j \in 1..MaxMajorNodes : WF_vars(SampleDraw(i, j))
    /\ WF_vars(SampleReturn)

-----------------------------------------------------------------------------
\* Claims about the scenario run and about buildGraph

\* Every node and edge of g is a node and edge of h, attributes included
IsSubgraph(g, h) ==
    /\ \A i \in 1..Len(g.nodes) : \E j \in 1..Len(h.nodes) : g.nodes[i] = h.nodes[j]
    /\ \A i \in 1..Len(g.edges) : \E j \in 1..Len(h.edges) : g.edges[i] = h.edges[j]

\* C1: applyFailure leaves its input graph unchanged, whatever the failure kind
\* and the targets: the nodes, edges and edge attributes of the input (and of
\* every other graph there was) are after the call what they were before, and
\* the removals show only in the graph returned, which is a new object.
C1_ApplyFailureFrame ==
    [][(pc = "baselined" /\ failureType # "none") =>
          /\ SubSeq(heap', 1, Len(heap)) = heap
          /\ heap'[originalGraph'] = heap[originalGraph]
          /\ pc' = "failed" =>
                /\ failedGraph' > Len(heap)
                /\ IsSubgraph(heap'[failedGraph'], heap[originalGraph])]_vars

\* C1 witness: a failure has removed nodes from the returned graph, and the
\* input graph is still the graph that was built
C1_Witness ==
    /\ pc = "failed"
    /\ failureType = "layer"
    /\ failedGraph # originalGraph
    /\ Len(heap[failedGraph].nodes) < Len(heap[originalGraph].nodes)
    /\ Len(heap[failedGraph].edges) < Len(heap[originalGraph].edges)
    /\ heap[originalGraph] = buildGraph(nodes, edges, objective, coefficients, routeContext)

\* A Metrics Bundle accounts for every OD pair passed in
Balanced(m) ==
    /\ m.validPairs + m.disconnected = m.totalPairs
    /\ m.totalPairs = Len(odPairs)

\* C3: every Metrics Bundle of a run (the baseline, the post-failure bundle,
\* the reference and every candidate evaluation inside the greedy loop, the
\* bundle kept with each selected link, and the final bundle) has
\* validPairs + disconnected = totalPairs, and totalPairs is the number of OD
\* pairs passed in.
C3_PairsAccounted ==
    /\ baselineMetrics # NullObject => Balanced(baselineMetrics)
    /\ scenarioMetrics # NullObject => Balanced(scenarioMetrics)
    /\ greedy.pc # "idle" =>
          /\ Balanced(greedy.baselineMetrics)
          /\ \A i \in 1..Len(greedy.log) : ~greedy.log[i].threw => Balanced(greedy.log[i])
          /\ \A i \in 1..Len(greedy.selectedLinks) : Balanced(greedy.selectedLinks[i].metrics)
    /\ greedy.pc = "done" => Balanced(greedy.finalMetrics)

\* C3 witness: a finished run whose bundles hold connected and disconnected
\* pairs, also inside the greedy loop
C3_Witness ==
    /\ pc = "done"
    /\ greedy.pc = "done"
    /\ scenarioMetrics.disconnected > 0
    /\ scenarioMetrics.validPairs > 0
    /\ \E i \in 1..Len(greedy.log) :
          ~greedy.log[i].threw /\ greedy.log[i].disconnected > 0
    /\ greedy.finalMetrics.disconnected > 0

\* C4: the list generateCandidates returns has at most 30 entries, no two
\* entries for the same unordered node pair, and no pair joined by an edge in
\* the original graph or in the failed graph.
C4_CandidateList ==
    pc = "candidates" =>
        /\ Len(candidates) <= 30
        /\ \A i, j \in 1..Len(candidates) :
              i # j => {candidates[i].from, candidates[i].to}
                           # {candidates[j].from, candidates[j].to}
        /\ \A i \in 1..Len(candidates) :
              /\ ~hasEdge(heap[originalGraph], candidates[i].from, candidates[i].to)
              /\ ~hasEdge(heap[failedGraph], candidates[i].from, candidates[i].to)

\* C4 witness: the list is full, for a failed graph that lost a node
C4_Witness ==
    /\ pc = "candidates"
    /\ Len(candidates) = 30
    /\ failedGraph # originalGraph
    /\ Len(heap[failedGraph].nodes) < Len(heap[originalGraph].nodes)

\* The objective value the working graph has with candidate c added
ValueWith(c) ==
    objectiveValue(
        computeMetrics(NoAcc,
                       addEdge(heap[greedy.workingGraph], c.from, c.to,
                               linkAttributes(linkOf(c, coefficients), objective,
                                              <<"candidate", c.type>>)),
                       odPairs, objective),
        objective)

\* No remaining candidate gives an objective value strictly below the reference
NoneImproves ==
    \A i \in 1..Len(greedy.remainingCandidates) :
        \/ addEdgeThrows(heap[greedy.workingGraph], greedy.remainingCandidates[i].from,
                         greedy.remainingCandidates[i].to)
        \/ ~FracLess(ValueWith(greedy.remainingCandidates[i]), greedy.baselineValue)

\* C5: greedyRecommendation never holds more recommendations than the budget;
\* and once no remaining candidate gives an objective value strictly below the
\* reference value, the loop is left: no link is added and no graph changes
\* from then on, whatever budget remains.
C5_BudgetAndEarlyStop ==
    /\ [](greedy.pc # "idle" => Len(greedy.selectedLinks) <= budget)
    /\ [][(pc = "greedy" /\ greedy.pc = "loop" /\ NoneImproves) =>
             /\ greedy'.pc # "loop"
             /\ greedy'.selectedLinks = greedy.selectedLinks
             /\ heap' = heap]_vars
    /\ [][(pc = "greedy" /\ greedy.pc = "return") =>
             /\ greedy'.pc = "done"
             /\ greedy'.selectedLinks = greedy.selectedLinks
             /\ heap' = heap]_vars

\* C5 witness: the run stopped after one link although the budget was two and
\* candidates remained
C5_Witness ==
    /\ pc = "done"
    /\ greedy.pc = "done"
    /\ budget = 2
    /\ Len(greedy.selectedLinks) = 1
    /\ greedy.iteration = 1
    /\ Len(greedy.remainingCandidates) > 0

\* At most one edge for each unordered pair of nodes
IsSimple(graph) ==
    \A i, j \in 1..Len(graph.edges) :
        i # j => ~Joins(graph.edges[i], graph.edges[j].source, graph.edges[j].target)

TargetedRecords ==
    { r \in 1..Len(edges) :
        \E k \in 1..Len(failureTargets) :
            failureTargets[k] = pairKey(edges[r].from_id, edges[r].to_id) }

\* The failure targets name the pair that edge e joins
Targeted(e) == \E r \in TargetedRecords : Joins(e, edges[r].from_id, edges[r].to_id)

\* C11: after an 'edge' failure the returned graph has no edge between the
\* endpoints of any existing edge whose key '<from_id>_<to_id>' is among the
\* targets, whatever the identifiers (identifiers holding '_' included), and
\* it keeps every node and every other edge as it was.
C11_EdgeFailureRemoves ==
    (pc = "failed" /\ failureType = "edge") =>
        /\ heap[failedGraph].nodes = heap[originalGraph].nodes
        /\ \A i \in 1..Len(heap[originalGraph].edges) :
              LET e == heap[originalGraph].edges[i]
              IN IF Targeted(e)
                 THEN ~hasEdge(heap[failedGraph], e.source, e.target)
                 ELSE \E j \in 1..Len(heap[failedGraph].edges) :
                         heap[failedGraph].edges[j] = e

\* The nodes of the original graph that a 'node' or 'layer' failure lists
Listed(n) ==
    IF failureType = "node" THEN includes(failureTargets, n.node_id)
    ELSE includes(failureTargets, n.layer)

\* The subgraph of g induced on the nodes that are not listed
Induced(g) ==
    [nodes |-> SelectSeq(g.nodes, LAMBDA n : ~Listed(n)),
     edges |-> SelectSeq(g.edges,
                  LAMBDA e : /\ ~Listed(getNodeAttributes(g, e.source))
                             /\ ~Listed(getNodeAttributes(g, e.target)))]

\* C12: after a 'node' or 'layer' failure the returned graph is the subgraph
\* induced on the surviving nodes: a node is gone iff its id (kind 'node') or
\* its layer (kind 'layer') is listed, an edge is kept, with its attributes,
\* iff both its endpoints are kept, and targets that match nothing change
\* nothing.
C12_InducedSubgraph ==
    (pc = "failed" /\ failureType \in {"node", "layer"}) =>
        heap[failedGraph] = Induced(heap[originalGraph])

\* C12 witness: a node failure that listed a node of the graph and an id that
\* is no node; the node and its edges are gone, other edges are kept
C12_Witness ==
    /\ pc = "failed"
    /\ failureType = "node"
    /\ \E k \in 1..Len(failureTargets) : ~hasNode(heap[originalGraph], failureTargets[k])
    /\ \E k \in 1..Len(failureTargets) : hasNode(heap[originalGraph], failureTargets[k])
    /\ Len(heap[failedGraph].nodes) = Len(heap[originalGraph].nodes) - 1
    /\ Len(heap[failedGraph].edges) < Len(heap[originalGraph].edges)
    /\ Len(heap[failedGraph].edges) > 0

\* C13: through a whole scenario run the original graph and the failed graph,
\* once produced, stay the objects they were, with the nodes, edges and
\* attributes they had, also when the failed graph is the original graph:
\* candidate evaluations and committed links go to copies.
C13_EarlierGraphsKept ==
    [][/\ originalGraph # 0 =>
             /\ originalGraph' = originalGraph
             /\ heap'[originalGraph] = heap[originalGraph]
       /\ failedGraph # 0 =>
             /\ failedGraph' = failedGraph
             /\ heap'[failedGraph] = heap[failedGraph]]_vars

\* C13 witness: a run without failure has committed a link; the final graph
\* has it, the original graph is the graph that was built
C13_Witness ==
    /\ pc = "done"
    /\ greedy.pc = "done"
    /\ failedGraph = originalGraph
    /\ Len(greedy.selectedLinks) > 0
    /\ Len(heap[greedy.finalGraph].edges) > Len(heap[originalGraph].edges)
    /\ heap[originalGraph] = buildGraph(nodes, edges, objective, coefficients, routeContext)

\* An edge of a dedicated-track rail mode
DedicatedTrack(e) == e.mode \in {"metro", "mmts"}

\* The time an edge should store: the base time on rail, the base time times
\* timeMultiplier elsewhere (time units)
ExpectedTime(e) ==
    IF DedicatedTrack(e) THEN e.baseTime * TimePerMin
    ELSE (e.baseTime * coefficients.timeMultiplier * TimePerMin) \div 20

\* The cost an edge should store before any preference penalty: the base cost
\* on rail, the base cost times costMultiplier elsewhere (cost units)
ExpectedCost(e) ==
    IF DedicatedTrack(e) THEN e.baseCost * CostPerRupee
    ELSE (e.baseCost * coefficients.costMultiplier * CostPerRupee) \div 20

BothMetro ==
    /\ routeContext # NullObject
    /\ \A id \in {routeContext.source, routeContext.target} :
          /\ hasNode(heap[originalGraph], id)
          /\ getNodeAttributes(heap[originalGraph], id).layer = "metro"

\* C15: with a route context between two metro nodes, the edges that are
\* neither rail edges nor 'inter' edges store 1.4 times their unpenalized
\* adjusted cost; rail edges and 'inter' edges store the unpenalized cost; no
\* stored time changes; and without such a route context no edge is penalized.
C15_MetroPreference ==
    originalGraph # 0 =>
        \A i \in 1..Len(heap[originalGraph].edges) :
            LET e == heap[originalGraph].edges[i]
            IN /\ e.time = ExpectedTime(e)
               /\ e.cost = IF /\ BothMetro
                              /\ ~DedicatedTrack(e)
                              /\ e.intra_or_inter # "inter"
                           THEN (ExpectedCost(e) * 7) \div 5
                           ELSE ExpectedCost(e)

\* The node ids of a graph, in the order the nodes were added
NodeIds(graph) == [i \in 1..Len(graph.nodes) |-> graph.nodes[i].node_id]

\* C16: buildGraph raises no error on any edge list over nodes with unique
\* ids: while it inserts edges and when it returns, the graph's nodes are
\* exactly the node list's ids and every edge joins two of them; every record
\* is passed (the loop moves on to the next one), graph.addEdge is never
\* called where it would throw, and a record with a missing endpoint changes
\* nothing.
C16_BuildTotal ==
    /\ [](pc \in {"edges", "built"} =>
             /\ NodeIds(heap[originalGraph]) = [i \in 1..Len(nodes) |-> nodes[i].node_id]
             /\ \A i \in 1..Len(heap[originalGraph].edges) :
                   /\ hasNode(heap[originalGraph], heap[originalGraph].edges[i].source)
                   /\ hasNode(heap[originalGraph], heap[originalGraph].edges[i].target))
    /\ [][(pc = "edges" /\ query.next <= Len(edges)) =>
             /\ pc' = "edges"
             /\ query'.next = query.next + 1
             /\ (\/ ~hasNode(heap[originalGraph], edges[query.next].from_id)
                 \/ ~hasNode(heap[originalGraph], edges[query.next].to_id))
                    => heap' = heap
             /\ (/\ hasNode(heap[originalGraph], edges[query.next].from_id)
                 /\ hasNode(heap[originalGraph], edges[query.next].to_id)
                 /\ ~hasEdge(heap[originalGraph], edges[query.next].from_id,
                             edges[query.next].to_id))
                    => Len(heap'[originalGraph].edges)
                           = Len(heap[originalGraph].edges) + 1]_vars
    /\ [][(pc = "edges" /\ query.next > Len(edges)) => pc' = "built"]_vars

\* C16 witness: the file held a record whose endpoint is no node, between two
\* records that became edges
C16_Witness ==
    /\ pc = "built"
    /\ Len(edges) = 3
    /\ ~hasNode(heap[originalGraph], edges[2].to_id)
    /\ Len(heap[originalGraph].edges) = 2
    /\ Len(heap[originalGraph].nodes) = Len(nodes)

\* The Metrics Bundles a state of the run holds
Bundles ==
    (IF baselineMetrics # NullObject THEN {baselineMetrics} ELSE {})
    \cup (IF scenarioMetrics # NullObject THEN {scenarioMetrics} ELSE {})
    \cup (IF greedy.pc # "idle"
          THEN {greedy.baselineMetrics}
               \cup {greedy.selectedLinks[i].metrics : i \in 1..Len(greedy.selectedLinks)}
          ELSE {})
    \cup (IF greedy.pc = "done" THEN {greedy.finalMetrics} ELSE {})

\* C17: the results list of every Metrics Bundle has one entry for each OD
\* pair passed in, in the order of the list: entry i has the source and the
\* target of pair i, reachable or not.
C17_ResultsAligned ==
    \A m \in Bundles :
        /\ Len(m.results) = Len(odPairs)
        /\ \A i \in 1..Len(odPairs) :
              /\ m.results[i].source = odPairs[i].source
              /\ m.results[i].target = odPairs[i].target

\* C17 witness: of three pairs the second is cut off by the failure; the
\* baseline and the post-failure bundle line up pair by pair
C17_Witness ==
    /\ pc = "measured"
    /\ Len(odPairs) = 3
    /\ baselineMetrics.results[2].reachable
    /\ ~scenarioMetrics.results[2].reachable
    /\ scenarioMetrics.results[1].reachable
    /\ scenarioMetrics.results[3].reachable
    /\ scenarioMetrics.results[2].source = baselineMetrics.results[2].source
    /\ odPairs[1].source # odPairs[2].source

\* The sum of a field over the entries from i on that have a finite time
RECURSIVE SumReachable(_, _, _)
SumReachable(results, i, field) ==
    IF i > Len(results) THEN 0
    ELSE (IF results[i].time # UNREACHABLE THEN results[i][field] ELSE 0)
         + SumReachable(results, i + 1, field)

\* The fraction avg is total / count, or 0 when count is 0
IsAverage(avg, total, count) ==
    /\ avg.den > 0
    /\ IF count = 0 THEN avg.num = 0 ELSE avg.num * count = total * avg.den

\* C18: in every Metrics Bundle avgTime, avgCost and avgTransfers are the sums
\* of time, cost and transfers over the reachable pairs divided by validPairs,
\* the number of reachable pairs, and are 0 when there is none (an empty OD
\* pair list gives such a bundle).
C18_Averages ==
    \A m \in Bundles :
        /\ m.validPairs = Cardinality({i \in 1..Len(m.results) :
                                          m.results[i].time # UNREACHABLE})
        /\ IsAverage(m.avgTime, SumReachable(m.results, 1, "time"), m.validPairs)
        /\ IsAverage(m.avgCost, SumReachable(m.results, 1, "cost"), m.validPairs)
        /\ IsAverage(m.avgTransfers, SumReachable(m.results, 1, "transfers"), m.validPairs)

\* C18 witness: a bundle over three pairs of which one is cut off, with a
\* positive average time, cost and number of transfers
C18_Witness ==
    /\ pc = "measured"
    /\ scenarioMetrics.totalPairs = 3
    /\ scenarioMetrics.validPairs = 2
    /\ scenarioMetrics.disconnected = 1
    /\ scenarioMetrics.avgTime.num > 0
    /\ scenarioMetrics.avgCost.num > 0
    /\ scenarioMetrics.avgTransfers.num > 0

\* The pairs of bus hubs (by their places in the node list) that are 2 to 6 km
\* apart and joined in neither the original nor the failed graph
QualifyingHubPairs ==
    { p \in (1..Len(nodes)) \X (1..Len(nodes)) :
        /\ p[1] < p[2]
        /\ \A k \in {p[1], p[2]} : nodes[k].type = "hub" /\ nodes[k].layer = "bus"
        /\ nodeDistance(nodes[p[1]], nodes[p[2]]) >= 20
        /\ nodeDistance(nodes[p[1]], nodes[p[2]]) <= 60
        /\ ~hasEdge(heap[originalGraph], nodes[p[1]].node_id, nodes[p[2]].node_id)
        /\ ~hasEdge(heap[failedGraph], nodes[p[1]].node_id, nodes[p[2]].node_id) }

\* C19: when at most 30 pairs of bus hubs qualify (2 to 6 km apart, joined in
\* neither graph), the list generateCandidates returns has, for each of them,
\* a 'hub_neighbor' candidate of priority 10, whatever the identifiers
\* (identifiers holding '_' included).
C19_HubNeighborsProposed ==
    (pc = "candidates" /\ Cardinality(QualifyingHubPairs) <= 30) =>
        \A p \in QualifyingHubPairs :
            \E i \in 1..Len(candidates) :
                /\ {candidates[i].from, candidates[i].to}
                       = {nodes[p[1]].node_id, nodes[p[2]].node_id}
                /\ candidates[i].type = "hub_neighbor"
                /\ candidates[i].priority = 10

\* The number of pairs generateODSample should return
SampleTarget ==
    Min(query.sampleSize,
        (Len(majorNodes(nodes)) * (Len(majorNodes(nodes)) - 1)) \div 2)

\* C20: for every node list and every sampleSize >= 0, generateODSample
\* terminates under fair random choice, and returns exactly
\* min(sampleSize, m(m-1)/2) pairs, m the number of major nodes, each of two
\* different major nodes, no two of them the same unordered pair.
C20_SampleTerminates ==
    /\ <>(pc = "sampled")
    /\ [](pc = "sampled" =>
             /\ Len(odPairs) = SampleTarget
             /\ \A k \in 1..Len(odPairs) :
                   /\ odPairs[k].source # odPairs[k].target
                   /\ \E n \in 1..Len(nodes) :
                         nodes[n].node_id = odPairs[k].source
                         /\ (nodes[n].type \in {"station", "hub"}
                             \/ (nodes[n].layer = "metro" /\ nodes[n].name # ""))
                   /\ \E n \in 1..Len(nodes) :
                         nodes[n].node_id = odPairs[k].target
                         /\ (nodes[n].type \in {"station", "hub"}
                             \/ (nodes[n].layer = "metro" /\ nodes[n].name # ""))
             /\ \A k, l \in 1..Len(odPairs) :
                   k # l => {odPairs[k].source, odPairs[k].target}
                                # {odPairs[l].source, odPairs[l].target})

\* The unordered node pair of a candidate or a link
PairOf(c) == {c.from, c.to}

\* The places of the remaining candidates that can be added to the working graph
Addable ==
    { i \in 1..Len(greedy.remainingCandidates) :
        ~addEdgeThrows(heap[greedy.workingGraph], greedy.remainingCandidates[i].from,
                       greedy.remainingCandidates[i].to) }

\* C21: in every greedy round that selects a link, the objective value that
\* results from the selected candidate is less than or equal to the value that
\* results from every other candidate of the pool of that round; the selected
\* link is appended to the list of recommendations, is an edge of the working
\* graph from then on and is no longer in the pool, so no node pair is
\* recommended twice and the list is in selection order.
C21_SelectsLowest ==
    /\ [][(pc = "greedy" /\ greedy.pc = "loop"
           /\ Len(greedy'.selectedLinks) > Len(greedy.selectedLinks)) =>
             /\ Len(greedy'.selectedLinks) = Len(greedy.selectedLinks) + 1
             /\ SubSeq(greedy'.selectedLinks, 1, Len(greedy.selectedLinks))
                    = greedy.selectedLinks
             /\ \E i \in Addable :
                   /\ greedy.remainingCandidates[i].from
                          = greedy'.selectedLinks[Len(greedy'.selectedLinks)].from
                   /\ greedy.remainingCandidates[i].to
                          = greedy'.selectedLinks[Len(greedy'.selectedLinks)].to
             /\ \A i \in Addable :
                   ~FracLess(ValueWith(greedy.remainingCandidates[i]),
                             objectiveValue(
                                 greedy'.selectedLinks[Len(greedy'.selectedLinks)].metrics,
                                 objective))]_vars
    /\ [](greedy.pc # "idle" =>
             /\ \A k \in 1..Len(greedy.selectedLinks) :
                   /\ hasEdge(heap[greedy.workingGraph], greedy.selectedLinks[k].from,
                              greedy.selectedLinks[k].to)
                   /\ \A i \in 1..Len(greedy.remainingCandidates) :
                         ~(/\ greedy.remainingCandidates[i].from = greedy.selectedLinks[k].from
                           /\ greedy.remainingCandidates[i].to = greedy.selectedLinks[k].to)
             /\ \A k, l \in 1..Len(greedy.selectedLinks) :
                   k # l => PairOf(greedy.selectedLinks[k]) # PairOf(greedy.selectedLinks[l]))

\* C21 witness: two links were selected; in the first round two candidates
\* gave different improvements, and the smaller one was not selected first
C21_Witness ==
    /\ greedy.pc = "done"
    /\ Len(greedy.selectedLinks) = 2
    /\ \E i, j \in 1..Len(greedy.log) :
          /\ greedy.log[i].progress.iteration = 0
          /\ greedy.log[j].progress.iteration = 0
          /\ ~greedy.log[i].threw
          /\ ~greedy.log[j].threw
          /\ FracLess(Frac(0, 1), greedy.log[i].improvement)
          /\ FracLess(greedy.log[i].improvement, greedy.log[j].improvement)
          /\ greedy.log[j].improvement = greedy.selectedLinks[1].improvement

\* Two fractions of the same value
FracEq(a, b) == a.num * b.den = b.num * a.den

\* The graph with the first k of the links added as recommended links
RECURSIVE WithLinks(_, _, _)
WithLinks(graph, links, k) ==
    IF k = 0 THEN graph
    ELSE addEdge(WithLinks(graph, links, k - 1), links[k].from, links[k].to,
                 linkAttributes(links[k], objective, <<"recommended", links[k].type>>))

\* The objective value of a graph on the OD pairs of the run
ValueOf(graph) == objectiveValue(computeMetrics(NoAcc, graph, odPairs, objective), objective)

C23_DiminishingReturns ==
    greedy.pc # "idle" =>
        \A k, l \in 1..Len(greedy.selectedLinks) :
            k < l => ~FracLess(greedy.selectedLinks[k].improvement,
                               greedy.selectedLinks[l].improvement)

\* The calls of the progress callback so far, in order
Calls == [i \in 1..Len(greedy.log) |-> greedy.log[i].progress]

\* C24: the progress callback is called exactly once for every candidate of
\* the pool of every round that runs, the candidates whose insertion fails
\* included, with iteration the index of the round, candidateIndex running
\* 0..totalCandidates-1 in the order of the pool and totalCandidates the size
\* of the pool of that round; it is not called outside a round, and never when
\* the pool is empty or the budget is 0.
C24_ProgressCalls ==
    /\ [][(pc = "greedy" /\ greedy.pc = "loop" /\ greedy'.log # greedy.log) =>
             /\ loopContinues(greedy.iteration, budget, greedy.remainingCandidates)
             /\ Len(greedy'.log) = Len(greedy.log) + Len(greedy.remainingCandidates)
             /\ SubSeq(greedy'.log, 1, Len(greedy.log)) = greedy.log
             /\ \A i \in 1..Len(greedy.remainingCandidates) :
                   greedy'.log[Len(greedy.log) + i].progress
                       = [iteration |-> greedy.iteration, candidateIndex |-> i - 1,
                          totalCandidates |-> Len(greedy.remainingCandidates),
                          budget |-> budget]]_vars
    /\ [][(pc = "greedy" /\ greedy.pc = "loop"
           /\ loopContinues(greedy.iteration, budget, greedy.remainingCandidates)) =>
             greedy'.log # greedy.log]_vars
    /\ [][(greedy.pc \in {"return", "done"}) => greedy'.log = greedy.log]_vars
    /\ [](greedy.pc # "idle" =>
             /\ \A p \in 1..Len(Calls) :
                   /\ Calls[p].iteration < budget
                   /\ Calls[p].totalCandidates > 0
                   /\ IF p = 1 THEN Calls[p].iteration = 0 /\ Calls[p].candidateIndex = 0
                      ELSE \/ /\ Calls[p].iteration = Calls[p - 1].iteration
                              /\ Calls[p].candidateIndex = Calls[p - 1].candidateIndex + 1
                              /\ Calls[p].totalCandidates = Calls[p - 1].totalCandidates
                           \/ /\ Calls[p].iteration = Calls[p - 1].iteration + 1
                              /\ Calls[p].candidateIndex = 0
                              /\ Calls[p - 1].candidateIndex
                                     = Calls[p - 1].totalCandidates - 1
             /\ Len(Calls) > 0 =>
                   Calls[Len(Calls)].candidateIndex = Calls[Len(Calls)].totalCandidates - 1
             /\ (budget = 0 \/ candidates = <<>>) => Calls = <<>>)

\* C24 witness: two rounds ran, the second over a pool smaller by one, and the
\* insertion of a candidate of the first round failed
C24_Witness ==
    /\ greedy.pc = "done"
    /\ \E p, q \in 1..Len(greedy.log) :
          /\ greedy.log[p].progress.iteration = 0
          /\ greedy.log[p].threw
          /\ greedy.log[q].progress.iteration = 1
          /\ greedy.log[q].progress.totalCandidates
                 = greedy.log[p].progress.totalCandidates - 1
          /\ greedy.log[q].progress.candidateIndex > 0

\* C24, the empty pool: greedyRecommendation ran on an empty candidate list and
\* returned without a call of the callback
C24_WitnessEmptyPool ==
    /\ greedy.pc = "done"
    /\ candidates = <<>>
    /\ greedy.log = <<>>
    /\ budget > 0

\* The orders in which the sort of the reachable results can leave them
SortedReachable ==
    LET reachable == SelectSeq(scenarioMetrics.results, LAMBDA r : r.reachable)
    IN { [i \in 1..Len(reachable) |-> reachable[f[i]]] :
            f \in Permutations(1..Len(reachable)) }

\* The lists of all generated candidates, before the sort and the cap, of
\* which the list held is the output
Generated ==
    { collectCandidates(nodes, heap[originalGraph], heap[failedGraph], sr) :
        sr \in { x \in SortedReachable :
                   generateCandidates(nodes, heap[originalGraph], heap[failedGraph], x)
                       = candidates } }

PriorityOf(type) ==
    IF type = "hub_neighbor" THEN 10
    ELSE IF type = "cross_rail" THEN 8
    ELSE IF type = "od_driven" THEN 7
    ELSE IF type = "express_hub" THEN 6
    ELSE 0

\* C25: the list generateCandidates returns is in the order of non-increasing
\* priority (hub_neighbor 10, cross_rail 8, od_driven 7, express_hub 6), and
\* the cap of 30 is applied after the sort: no generated candidate that is left
\* out has a strictly higher priority than one that is in the list.
C25_PriorityOrder ==
    pc = "candidates" =>
        /\ \A i \in 1..Len(candidates) :
              candidates[i].priority = PriorityOf(candidates[i].type)
        /\ \A i, j \in 1..Len(candidates) :
              i < j => candidates[i].priority >= candidates[j].priority
        /\ Generated # {}
        /\ \A all \in Generated :
              /\ Len(candidates) = Min(30, Len(all))
              /\ \A i \in 1..Len(candidates) :
                    \E k \in 1..Len(all) : all[k] = candidates[i]
              /\ \A k \in 1..Len(all) :
                    (\A i \in 1..Len(candidates) : candidates[i] # all[k]) =>
                        \A i \in 1..Len(candidates) :
                            all[k].priority <= candidates[i].priority

\* C25 witness: more than 30 candidates were generated, of four priorities;
\* the list holds 30 of them, of priority 10 and 8
C25_Witness ==
    /\ pc = "candidates"
    /\ Len(candidates) = 30
    /\ candidates[1].priority = 10
    /\ candidates[30].priority = 8
    /\ \E all \in Generated :
          /\ Len(all) > 30
          /\ \E k \in 1..Len(all) : all[k].priority = 8 /\ all[k] # candidates[30]
                                    /\ \A i \in 1..30 : candidates[i] # all[k]
          /\ \E k \in 1..Len(all) : all[k].priority = 6

\* The reachable post-failure results with a time larger than t
LargerTimes(t) ==
    { q \in 1..Len(scenarioMetrics.results) :
        scenarioMetrics.results[q].reachable /\ scenarioMetrics.results[q].time > t }

\* C26: every 'od_driven' candidate generateCandidates returns is the pair
\* (first node, node at index floor(length / 2)) of the path of a reachable
\* post-failure result whose time is among the 5 largest times of the
\* reachable post-failure results; an unreachable result gives no candidate.
C26_OdDrivenFromWorst ==
    pc = "candidates" =>
        \A i \in 1..Len(candidates) :
            candidates[i].type = "od_driven" =>
                \E q \in 1..Len(scenarioMetrics.results) :
                    /\ scenarioMetrics.results[q].reachable
                    /\ Len(scenarioMetrics.results[q].path) > 2
                    /\ candidates[i].from = scenarioMetrics.results[q].path[1]
                    /\ candidates[i].to = midPoint(scenarioMetrics.results[q])
                    /\ Cardinality(LargerTimes(scenarioMetrics.results[q].time)) < 5

\* C27: the path of every reachable Path Result, under every objective, is a
\* walk from the source to the target along edges of the graph, and the totals
\* are derived from that path alone: time, cost and distance are the sums of
\* the values stored on its edges and transfers is the number of consecutive
\* edge pairs whose modes differ (the first edge never counts), for the
\* weighted search and for the transfer-minimizing search alike.
C27_TotalsFromPath ==
    (Answered /\ pathResult.path # NullPath) =>
        /\ pathResult.path[1] = query.source
        /\ pathResult.path[Len(pathResult.path)] = query.target
        /\ \A i \in 1..(Len(pathResult.path) - 1) :
              hasEdge(Asked, pathResult.path[i], pathResult.path[i + 1])
        /\ pathResult.time = PathTime(Asked, pathResult.path)
        /\ pathResult.cost = PathCost(Asked, pathResult.path)
        /\ pathResult.distance = SumOver(Asked, pathResult.path, 1, "distance")
        /\ pathResult.transfers = ModeChanges(Asked, pathResult.path)
        /\ query.source # query.target =>
              Len(pathResult.pathSegments) = Len(pathResult.path) - 1

\* C27 witness: the transfer-minimizing search returned a path of three edges
\* with two mode changes
C27_Witness ==
    /\ Found
    /\ objective = "transfers"
    /\ Len(pathResult.path) = 4
    /\ pathResult.transfers = 2
    /\ pathResult.time > 0

\* C27, the weighted search: a path of three edges with one mode change
C27_WitnessWeighted ==
    /\ Found
    /\ objective = "cost"
    /\ Len(pathResult.path) = 4
    /\ pathResult.transfers = 1

\* A candidate that cannot be added to the failed graph: an endpoint is not a
\* node of it, or the pair is joined already
Unusable(c) == addEdgeThrows(heap[failedGraph], c.from, c.to)

\* C28: for every failed graph and candidate list, candidates with an
\* endpoint the failed graph does not have and candidates whose pair is joined
\* already included, the working graph of greedyRecommendation (the finalGraph
\* it returns) has the nodes of the failed graph and the edges of the failed
\* graph followed by exactly one new edge for each recommendation; unusable
\* candidates are skipped, the call returns, and they are never recommended;
\* the graph stays simple.
C28_FinalGraph ==
    /\ [](greedy.pc # "idle" =>
             /\ heap[greedy.workingGraph].nodes = heap[failedGraph].nodes
             /\ Len(heap[greedy.workingGraph].edges)
                    = Len(heap[failedGraph].edges) + Len(greedy.selectedLinks)
             /\ SubSeq(heap[greedy.workingGraph].edges, 1, Len(heap[failedGraph].edges))
                    = heap[failedGraph].edges
             /\ \A k \in 1..Len(greedy.selectedLinks) :
                   /\ heap[greedy.workingGraph].edges[Len(heap[failedGraph].edges) + k].source
                          = greedy.selectedLinks[k].from
                   /\ heap[greedy.workingGraph].edges[Len(heap[failedGraph].edges) + k].target
                          = greedy.selectedLinks[k].to
                   /\ ~Unusable(greedy.selectedLinks[k])
             /\ IsSimple(heap[failedGraph]) => IsSimple(heap[greedy.workingGraph])
             /\ greedy.pc = "done" => greedy.finalGraph = greedy.workingGraph)
    /\ [][(greedy.pc = "loop"
           /\ loopContinues(greedy.iteration, budget, greedy.remainingCandidates)) =>
             \A i \in 1..Len(greedy.remainingCandidates) :
                 greedy'.log[Len(greedy.log) + i].threw
                     = addEdgeThrows(heap[greedy.workingGraph],
                                     greedy.remainingCandidates[i].from,
                                     greedy.remainingCandidates[i].to)]_vars

\* C28 witness: the call returned two recommendations from a list that also
\* names the first pair in the opposite orientation, a pair that is joined
\* already and a node the graph does not have
C28_Witness ==
    /\ greedy.pc = "done"
    /\ Len(greedy.selectedLinks) = 2
    /\ \E i, j, k \in 1..Len(candidates) :
          /\ candidates[i].from = greedy.selectedLinks[1].to
          /\ candidates[i].to = greedy.selectedLinks[1].from
          /\ hasEdge(heap[failedGraph], candidates[j].from, candidates[j].to)
          /\ ~hasNode(heap[failedGraph], candidates[k].to)
    /\ Len(heap[greedy.finalGraph].edges) = Len(heap[failedGraph].edges) + 2

\* The objective value of the metrics greedyRecommendation returns
FinalValue == objectiveValue(greedy.finalMetrics, objective)

\* C29: the finalMetrics greedyRecommendation returns are the Metrics Bundle
\* attached to the last recommendation, or the metrics of the failed graph
\* when there is no recommendation (no candidates, budget 0); every recorded
\* improvement is strictly positive, and the final objective value is never
\* above the value of the failed graph and is strictly below it iff at least
\* one link is recommended.
C29_FinalMetrics ==
    /\ greedy.pc # "idle" =>
          \A k \in 1..Len(greedy.selectedLinks) :
              FracLess(Frac(0, 1), greedy.selectedLinks[k].improvement)
    /\ greedy.pc = "done" =>
          /\ greedy.finalMetrics
                 = IF greedy.selectedLinks = <<>>
                   THEN computeMetrics(NoAcc, heap[failedGraph], odPairs, objective)
                   ELSE greedy.selectedLinks[Len(greedy.selectedLinks)].metrics
          /\ ~FracLess(ValueOf(heap[failedGraph]), FinalValue)
          /\ FracLess(FinalValue, ValueOf(heap[failedGraph]))
                 <=> Len(greedy.selectedLinks) > 0

\* C29 witness: two links were recommended; the metrics returned are those of
\* the second and differ from those of the first
C29_Witness ==
    /\ greedy.pc = "done"
    /\ Len(greedy.selectedLinks) = 2
    /\ greedy.finalMetrics = greedy.selectedLinks[2].metrics
    /\ greedy.finalMetrics # greedy.selectedLinks[1].metrics
    /\ FracLess(FinalValue, greedy.baselineValue)

\* C29, no recommendation: a call with budget 0 on a list of usable candidates
C29_WitnessNone ==
    /\ greedy.pc = "done"
    /\ budget = 0
    /\ Len(candidates) > 2
    /\ greedy.selectedLinks = <<>>
    /\ greedy.finalMetrics.validPairs > 0

\* The Metrics Bundles greedyRecommendation measured on the working graph with
\* links added: those of the recommendations and the final one
LinkBundles ==
    {greedy.selectedLinks[k].metrics : k \in 1..Len(greedy.selectedLinks)}
        \cup (IF greedy.pc = "done" THEN {greedy.finalMetrics} ELSE {})

\* The metrics of the failed graph on the OD pairs of the call
FailedMetrics == computeMetrics(NoAcc, heap[failedGraph], odPairs, objective)

\* C30: adding recommended links never disconnects an OD pair, under every
\* objective: the disconnected count of finalMetrics and of the Metrics Bundle
\* of every recommendation is less than or equal to the disconnected count of
\* the failed graph on the same OD pairs, pair by pair; and the search of every
\* objective, the transfer-minimizing one included, finds a path whenever the
\* graph has one.
C30_NeverDisconnects ==
    greedy.pc # "idle" =>
        /\ \A m \in LinkBundles :
              /\ m.disconnected <= FailedMetrics.disconnected
              /\ \A i \in 1..Len(odPairs) :
                    FailedMetrics.results[i].reachable => m.results[i].reachable
        /\ \A i \in 1..Len(odPairs) :
              /\ FailedMetrics.results[i].reachable
                     <=> SimplePaths(heap[failedGraph], odPairs[i].source,
                                     odPairs[i].target) # {}
              /\ greedy.pc = "done" =>
                    (greedy.finalMetrics.results[i].reachable
                         <=> SimplePaths(heap[greedy.finalGraph], odPairs[i].source,
                                         odPairs[i].target) # {})

\* C30 witness: under 'transfers' a recommended link reconnected an OD pair
\* that the failure had cut off
C30_Witness ==
    /\ greedy.pc = "done"
    /\ objective = "transfers"
    /\ Len(greedy.selectedLinks) > 0
    /\ failedGraph # originalGraph
    /\ FailedMetrics.validPairs > 0
    /\ greedy.finalMetrics.disconnected < FailedMetrics.disconnected

====
